---- MODULE Spec2Model ----
(***************************************************************************)
(* Model of the reMarkable -> PDF conversion core of the Obsidian plugin:  *)
(* DocumentConverter.convertToPdf (document-converter.ts) and the PDF      *)
(* renderer (pdf-renderer.ts: renderStroke, renderHighlighterStroke,       *)
(* renderTextBlock, renderPageToPdf, renderNotebookToPdf,                  *)
(* mergeWithBackground), of the page loop of re-render.ts, of the plugin   *)
(* object (main.ts: runSync, restartAutoSync, onload, onunload) and of the *)
(* SyncManager (sync-manager.ts).                                          *)
(*                                                                         *)
(* Numbers.  The source computes in IEEE doubles; the model computes the   *)
(* same quantities exactly, as integers over fixed denominators:           *)
(*   stroke widths      in 1/WDEN pt   (WDEN = 1404 * 1000)                *)
(*   x coordinates      in 1/XDEN pt   (XDEN = 1620)                       *)
(*   y coordinates      in 1/YDEN pt   (YDEN = 200 * 1404 * 3)             *)
(*   page.height        in 1/HDEN device units (0.885 = 177/200)           *)
(*   point positions    x in whole device units; y as y + ySub/YSUB device *)
(*                      units with 0 <= ySub < YSUB (0.885 = 3 * 59 / 200: *)
(*                      on the grid of 1/59 unit, maxY * 0.885 can meet    *)
(*                      1.05 * 1872 exactly).  A point that is drawn lies  *)
(*                      on a whole unit (ySub = 0): its mapped y is then   *)
(*                      exact in 1/YDEN pt.                                *)
(*   colour channels    in 1/CDEN      (CDEN = 255 * 10000)                *)
(*   opacities          in 1/ODEN      (ODEN = 255 * 100)                  *)
(* A packed ARGB colour is held as its 32 bit two's complement value.      *)
(***************************************************************************)
EXTENDS Integers, Sequences, FiniteSets, TLC

VARIABLES
    stroke,      \* renderStroke: the Stroke passed in
    strokeGeo,   \* renderStroke: the PageGeometry passed in
    strokeOps,   \* renderStroke: the operators pushed on the PDFPage so far
    strokePc,    \* renderStroke: "call" before the call, "returned" after
    pageIn,      \* renderPageToPdf: the Page passed in
    pageBg,      \* renderPageToPdf: backgroundPdf, Null when undefined
    pageOps,     \* renderPageToPdf: the operators pushed on pdfPage so far
    pagePc,      \* renderPageToPdf: the next step
    pageOut,     \* renderPageToPdf: the bytes returned, Null before the return
    content,         \* DocumentConverter.content, as parse() returns it
    convPc,          \* convertToPdf: "start", "loop", "render", "done", "failed"
    convI,           \* convertToPdf: the loop index i, from 1
    parsedPages,     \* convertToPdf: parsedPages
    backgroundPdfs,  \* convertToPdf: backgroundPdfs
    nbI,             \* renderNotebookToPdf: the loop index i, from 1
    outputDoc,       \* renderNotebookToPdf: the pages added to outputDoc
    result,          \* the promise convertToPdf returns
    wrapArgs,    \* wrapText: the arguments text, maxWidth, font, fontSize
    wrapLines,   \* wrapText: the lines returned, Null before the return
    wrapPc,      \* wrapText: "call" before the call, "returned" after
    rrPageInfo,  \* one .rm file, as the PageInfo convertToPdf gets for it
    rrConverted, \* the Page convertToPdf pushes for it, Null before
    rrRendered,  \* the Page re-render.ts pushes for it, Null before
    pluginPc,        \* RemarkableSyncPlugin: "new", "loaded" or "unloaded"
    settings,        \* this.settings: isAuthenticated, syncIntervalLabel, lastSyncTime
    isSyncing,       \* this.isSyncing
    syncIntervalId,  \* this.syncIntervalId, Null or a timer id
    timers,          \* window: the ids of the intervals that are set
    timerCount,      \* window: how many intervals have been set so far
    calls,           \* the calls of runSync so far, each with its position
    managersCreated, \* how many times SyncManager.create was called
    syncCalls,       \* how many times manager.sync was called
    cloudVersion,  \* the cloud: the version of each document
    stateFile,     \* the content of .remarkable-sync-state.json, Null when absent
    state,         \* SyncManager.state (a SyncState)
    managerPc,     \* SyncManager: "none", "ready", "loop", "returned", "threw"
    opts,          \* sync: opts
    filtered,      \* sync: filtered
    syncI,         \* sync: the position of the for loop in filtered, from 1
    results,       \* sync: results
    downloads,     \* the ids passed to client.downloadDocument in this sync
    fileOpsCalls,  \* the calls of FileOps made in this sync, counted by method
    syncCount,     \* how many times sync was called; also the clock
    syncedOk       \* per document, the version of its last successful syncDocument

strokeVars == <<stroke, strokeGeo, strokeOps, strokePc>>

pageVars == <<pageIn, pageBg, pageOps, pagePc, pageOut>>

convVars ==
    <<content, convPc, convI, parsedPages, backgroundPdfs, nbI, outputDoc, result>>

renderVars == <<strokeVars, pageVars, convVars>>

wrapVars == <<wrapArgs, wrapLines, wrapPc>>

\* the variables outside the renderer and the converter
rrVars == <<rrPageInfo, rrConverted, rrRendered>>

pluginVars ==
    <<pluginPc, settings, isSyncing, syncIntervalId, timers, timerCount, calls,
      managersCreated, syncCalls>>

syncVars ==
    <<cloudVersion, stateFile, state, managerPc, opts, filtered, syncI, results,
      downloads, fileOpsCalls, syncCount, syncedOk>>

appVars == <<wrapVars, rrVars, pluginVars, syncVars>>

vars == <<renderVars, appVars>>

(***************************************************************************)
(* Optional values (T | null).                                             *)
(***************************************************************************)
Null == <<>>

Some(v) == <<v>>

IsNull(o) == o = Null

Get(o) == o[1]

Max(a, b) == IF a >= b THEN a ELSE b

Min(a, b) == IF a <= b THEN a ELSE b

(***************************************************************************)
(* Constants of pdf-renderer.ts.                                           *)
(***************************************************************************)
RM_DEFAULT_WIDTH_PX == 1404

RM_DEFAULT_HEIGHT_PX == 1872

RM_SCREEN_WIDTH_PX == 1620

\* SCALE = 514 / RM_DEFAULT_WIDTH_PX and COORD_SCALE = 514 / RM_SCREEN_WIDTH_PX
\* share this numerator.
SCALE_NUM == 514

\* WIDTH_FACTOR = 0.216 = 216 / 1000
WIDTH_FACTOR_NUM == 216

WIDTH_FACTOR_DEN == 1000

\* 0.885 = 177 / 200: page.height is held in 1/HDEN device units.
HDEN == 200

\* 177 = 3 * 59: the y of a point is held on the grid of 1/YSUB device unit.
YSUB == 59

WDEN == RM_DEFAULT_WIDTH_PX * WIDTH_FACTOR_DEN

XDEN == RM_SCREEN_WIDTH_PX

YDEN == HDEN * RM_DEFAULT_WIDTH_PX * 3

CDEN == 255 * 10000

ODEN == 255 * 100

\* n/10 pt in width units
WPt10(n) == n * (WDEN \div 10)

(***************************************************************************)
(* PenType (rm-parser.ts), by member name.  UNKNOWN stands for every       *)
(* number that is no key of PEN_STYLES and no eraser.                      *)
(***************************************************************************)
HighlighterPens == {"HIGHLIGHTER_1", "HIGHLIGHTER_2", "SHADER"}

EraserPens == {"ERASER", "ERASER_AREA"}

InkPens ==
    {"BALLPOINT_1", "BALLPOINT_2", "MARKER_1", "MARKER_2", "FINELINER_1",
     "FINELINER_2", "PENCIL_1", "PENCIL_2", "MECHANICAL_PENCIL_1",
     "MECHANICAL_PENCIL_2", "BRUSH", "PAINTBRUSH_2", "CALLIGRAPHY"}

PenTypes == InkPens \cup HighlighterPens \cup EraserPens \cup {"UNKNOWN"}

\* PEN_STYLES: opacity in 1/100
PEN_STYLES ==
    [p \in InkPens \cup HighlighterPens |->
        CASE p \in {"PENCIL_1", "PENCIL_2"} ->
                [opacity |-> 35, isHighlighter |-> FALSE]
          [] p \in {"MECHANICAL_PENCIL_1", "MECHANICAL_PENCIL_2"} ->
                [opacity |-> 70, isHighlighter |-> FALSE]
          [] p \in {"HIGHLIGHTER_1", "HIGHLIGHTER_2"} ->
                [opacity |-> 45, isHighlighter |-> TRUE]
          [] p = "SHADER" ->
                [opacity |-> 30, isHighlighter |-> TRUE]
          [] OTHER ->
                [opacity |-> 100, isHighlighter |-> FALSE]]

getPenStyle(penType) ==
    IF penType \in DOMAIN PEN_STYLES
    THEN PEN_STYLES[penType]
    ELSE [opacity |-> 100, isHighlighter |-> FALSE]

\* COLOR_MAP: index -> <<r, g, b>> in 1/10000
COLOR_MAP ==
    [c \in 0..13 |->
        CASE c = 0 -> <<0, 0, 0>>
          [] c \in {1, 8} -> <<5647, 5647, 5647>>
          [] c = 2 -> <<10000, 10000, 10000>>
          [] c \in {3, 9, 13} -> <<9804, 9059, 980>>
          [] c \in {4, 10} -> <<5686, 8549, 4431>>
          [] c \in {5, 12} -> <<7529, 4980, 8235>>
          [] c = 6 -> <<1882, 2902, 8784>>
          [] c = 7 -> <<7608, 1922, 1961>>
          [] c = 11 -> <<4549, 8235, 9098>>]

\* a channel triple in 1/10000 as a colour in 1/CDEN
FromPalette(t) == [r |-> t[1] * 255, g |-> t[2] * 255, b |-> t[3] * 255]

getColor(colorIndex) ==
    FromPalette(IF colorIndex \in DOMAIN COLOR_MAP
                THEN COLOR_MAP[colorIndex]
                ELSE COLOR_MAP[0])

\* (argb >>> k) & 0xFF on the 32 bit two's complement value
Byte(argb, k) == (argb \div (2 ^ k)) % 256

\* channels r, g, b in 1/CDEN; a in 1/ODEN
getArgbColor(argb) ==
    [a |-> Byte(argb, 24) * 100,
     r |-> Byte(argb, 16) * 10000,
     g |-> Byte(argb, 8) * 10000,
     b |-> Byte(argb, 0) * 10000]

(***************************************************************************)
(* pointWidthPt: the clamped width of a point, in 1/WDEN pt.               *)
(***************************************************************************)
Clamp(lo, base, hi) == Max(lo, Min(base, hi))

\* mutant: the lower clamp is forgotten
pointWidthPt_NoMinClamp(point, penType) ==
    LET base == point.width * SCALE_NUM * WIDTH_FACTOR_NUM IN
    CASE penType \in {"BALLPOINT_1", "BALLPOINT_2", "MECHANICAL_PENCIL_1",
                      "MECHANICAL_PENCIL_2"} -> Min(base, WPt10(30))
      [] penType \in {"FINELINER_1", "FINELINER_2", "PENCIL_1", "PENCIL_2"} ->
            Min(base, WPt10(40))
      [] penType \in {"MARKER_1", "MARKER_2"} -> Min(base, WPt10(150))
      [] penType \in {"CALLIGRAPHY", "BRUSH"} -> Min(base, WPt10(100))
      [] penType = "PAINTBRUSH_2" -> Min(base, WPt10(80))
      [] OTHER -> Min(base, WPt10(200))

pointWidthPt(point, penType) ==
    LET base == point.width * SCALE_NUM * WIDTH_FACTOR_NUM IN
    CASE penType \in {"BALLPOINT_1", "BALLPOINT_2"} ->
            Clamp(WPt10(3), base, WPt10(30))
      [] penType \in {"FINELINER_1", "FINELINER_2"} ->
            Clamp(WPt10(3), base, WPt10(40))
      [] penType \in {"PENCIL_1", "PENCIL_2"} ->
            Clamp(WPt10(2), base, WPt10(40))
      [] penType \in {"MECHANICAL_PENCIL_1", "MECHANICAL_PENCIL_2"} ->
            Clamp(WPt10(2), base, WPt10(30))
      [] penType \in {"MARKER_1", "MARKER_2"} ->
            Clamp(WPt10(10), base, WPt10(150))
      [] penType = "CALLIGRAPHY" ->
            Clamp(WPt10(2), base, WPt10(100))
      [] penType = "PAINTBRUSH_2" ->
            Clamp(WPt10(3), base, WPt10(80))
      [] penType = "BRUSH" ->
            Clamp(WPt10(2), base, WPt10(100))
      [] OTHER ->
            Clamp(WPt10(2), base, WPt10(200))

(***************************************************************************)
(* Page geometry.  pageWidthPt in 1/XDEN pt, pageHeightPt in 1/YDEN pt;    *)
(* page.height in 1/HDEN device units.                                     *)
(***************************************************************************)
\* mutant: the flip uses the default device height, not the page's height
computePageGeometry_DefaultHeight(page) ==
    [xOffset |-> RM_SCREEN_WIDTH_PX \div 2,
     yOffset |-> 0,
     pageWidthPt |-> RM_SCREEN_WIDTH_PX * SCALE_NUM,
     pageHeightPt |-> RM_DEFAULT_HEIGHT_PX * HDEN * SCALE_NUM
                      * (YDEN \div (HDEN * RM_DEFAULT_WIDTH_PX))]

computePageGeometry(page) ==
    [xOffset |-> RM_SCREEN_WIDTH_PX \div 2,
     yOffset |-> 0,
     pageWidthPt |-> RM_SCREEN_WIDTH_PX * SCALE_NUM,
     pageHeightPt |-> page.height * SCALE_NUM * (YDEN \div (HDEN * RM_DEFAULT_WIDTH_PX))]

\* mutant: the older horizontal mapping (x + 702) * 514 / 1404, to the
\* nearest 1/XDEN pt below
toPdf_OldMapping(x, y, geo) ==
    [px |-> ((x + RM_DEFAULT_WIDTH_PX \div 2) * SCALE_NUM * XDEN)
            \div RM_DEFAULT_WIDTH_PX,
     py |-> geo.pageHeightPt
            - (y - geo.yOffset) * SCALE_NUM * (YDEN \div RM_SCREEN_WIDTH_PX)]

\* px in 1/XDEN pt, py in 1/YDEN pt
toPdf(x, y, geo) ==
    [px |-> (x + geo.xOffset) * SCALE_NUM,
     py |-> geo.pageHeightPt
            - (y - geo.yOffset) * SCALE_NUM * (YDEN \div RM_SCREEN_WIDTH_PX)]

\* Number.prototype.toFixed(2) of num/den (den > 0), in 1/100: the nearest
\* hundredth, a tie going away from zero.
ToFixed2(num, den) ==
    LET a == IF num < 0 THEN -num ELSE num
        q == a \div den
        r == a % den
        h == q * 100 + (200 * r + den) \div (2 * den)
    IN  IF num < 0 THEN -h ELSE h

(***************************************************************************)
(* Array.prototype.sort((a, b) => a - b) on a copy of the widths.          *)
(***************************************************************************)
RECURSIVE Insert(_, _)
Insert(s, v) ==
    IF s = <<>> THEN <<v>>
    ELSE IF v < Head(s) THEN <<v>> \o s
    ELSE <<Head(s)>> \o Insert(Tail(s), v)

\* mutant: the widths are taken in stroke order, the sort is forgotten
SortAsc_NoSort(s) == s

RECURSIVE SortAsc(_)
SortAsc(s) ==
    IF s = <<>> THEN <<>>
    ELSE Insert(SortAsc(SubSeq(s, 1, Len(s) - 1)), s[Len(s)])

(***************************************************************************)
(* renderHighlighterStroke: the operators it pushes on the page.           *)
(***************************************************************************)
PathCommands(points, geo) ==
    [i \in 1..Len(points) |->
        LET pt == toPdf(points[i].x, points[i].y, geo) IN
        [cmd |-> IF i = 1 THEN "M" ELSE "L",
         x |-> ToFixed2(pt.px, XDEN),
         y |-> ToFixed2(geo.pageHeightPt - pt.py, YDEN)]]

\* mutant: one separately composited path per segment
renderHighlighterStroke_PerSegment(s, color, opacity, geo) ==
    IF Len(s.points) < 2 THEN <<>>
    ELSE
        [k \in 1..(Len(s.points) - 1) |->
            [kind |-> "path",
             d |-> PathCommands(SubSeq(s.points, k, k + 1), geo),
             borderColor |-> color,
             borderWidth |-> Clamp(WPt10(10),
                                   s.points[k + 1].width * SCALE_NUM * WIDTH_FACTOR_NUM,
                                   WPt10(150)),
             borderOpacity |-> opacity,
             borderLineCap |-> "Round",
             y |-> geo.pageHeightPt]]

renderHighlighterStroke(s, color, opacity, geo) ==
    IF Len(s.points) < 2 THEN <<>>
    ELSE
        LET widths == SortAsc([i \in 1..Len(s.points) |-> s.points[i].width])
            medianRaw == widths[(Len(widths) \div 2) + 1]
                         * SCALE_NUM * WIDTH_FACTOR_NUM
            medianW == Clamp(WPt10(10), medianRaw, WPt10(150))
        IN  << [kind |-> "setLineJoin", style |-> "Round"],
               [kind |-> "path",
                d |-> PathCommands(s.points, geo),
                borderColor |-> color,
                borderWidth |-> medianW,
                borderOpacity |-> opacity,
                borderLineCap |-> "Round",
                y |-> geo.pageHeightPt] >>

(***************************************************************************)
(* What a call leaves of its arguments.  renderHighlighterStroke sorts     *)
(* stroke.points.map((p) => p.width), a new array: stroke.points is left   *)
(* as it is.  No other statement of the renderer writes to a Page, Layer,  *)
(* Stroke, Point, TextBlock or background buffer.                          *)
(***************************************************************************)
RECURSIVE InsertByWidth(_, _)
InsertByWidth(pts, pt) ==
    IF pts = <<>> THEN <<pt>>
    ELSE IF pt.width < Head(pts).width THEN <<pt>> \o pts
    ELSE <<Head(pts)>> \o InsertByWidth(Tail(pts), pt)

RECURSIVE SortByWidth(_)
SortByWidth(pts) ==
    IF pts = <<>> THEN <<>>
    ELSE InsertByWidth(SortByWidth(SubSeq(pts, 1, Len(pts) - 1)), pts[Len(pts)])

\* mutant: the points themselves are sorted by width, in place
PointsAfterMedian_SortInPlace(points) == SortByWidth(points)

\* stroke.points after lines 597-598
PointsAfterMedian(points) == points

\* the Stroke after renderStroke
StrokeAfterRender(s) ==
    IF Len(s.points) < 2 THEN s
    ELSE IF s.penType = "ERASER" \/ s.penType = "ERASER_AREA" THEN s
    ELSE IF getPenStyle(s.penType).isHighlighter
    THEN [s EXCEPT !.points = PointsAfterMedian(@)]
    ELSE s

\* the Page after renderPageToPdf
PageAfterRender(page) ==
    [page EXCEPT !.layers =
        [li \in DOMAIN page.layers |->
            [page.layers[li] EXCEPT !.strokes =
                [si \in DOMAIN page.layers[li].strokes |->
                    StrokeAfterRender(page.layers[li].strokes[si])]]]]

(***************************************************************************)
(* renderStroke: the operators it pushes on the page, in order.            *)
(***************************************************************************)
\* mutant: the override is honoured only when the palette has no entry
StrokeColor_PaletteFirst(s) ==
    IF ~IsNull(s.colorArgb) /\ s.color \notin DOMAIN COLOR_MAP
    THEN LET argb == getArgbColor(Get(s.colorArgb)) IN
         [r |-> argb.r, g |-> argb.g, b |-> argb.b]
    ELSE getColor(s.color)

StrokeColor(s) ==
    IF ~IsNull(s.colorArgb)
    THEN LET argb == getArgbColor(Get(s.colorArgb)) IN
         [r |-> argb.r, g |-> argb.g, b |-> argb.b]
    ELSE getColor(s.color)

\* mutant: the alpha channel is used for every highlighter-class pen
StrokeOpacity_AnyHighlighter(s) ==
    LET style == getPenStyle(s.penType) IN
    IF ~IsNull(s.colorArgb) /\ style.isHighlighter
    THEN getArgbColor(Get(s.colorArgb)).a
    ELSE style.opacity * 255

\* opacity in 1/ODEN
StrokeOpacity(s) ==
    LET style == getPenStyle(s.penType) IN
    IF ~IsNull(s.colorArgb) /\ style.isHighlighter /\ s.penType = "SHADER"
    THEN getArgbColor(Get(s.colorArgb)).a
    ELSE style.opacity * 255

\* mutant: a segment takes the width of the point it starts from
Segments_StartWidth(s, color, opacity, geo) ==
    [k \in 1..(Len(s.points) - 1) |->
        LET prev == s.points[k]
            curr == s.points[k + 1]
            p0 == toPdf(prev.x, prev.y, geo)
            p1 == toPdf(curr.x, curr.y, geo)
        IN  [kind |-> "line",
             start |-> [x |-> p0.px, y |-> p0.py],
             end |-> [x |-> p1.px, y |-> p1.py],
             thickness |-> pointWidthPt(prev, s.penType),
             color |-> color,
             opacity |-> opacity,
             lineCap |-> "Round"]]

Segments(s, color, opacity, geo) ==
    [k \in 1..(Len(s.points) - 1) |->
        LET prev == s.points[k]
            curr == s.points[k + 1]
            p0 == toPdf(prev.x, prev.y, geo)
            p1 == toPdf(curr.x, curr.y, geo)
        IN  [kind |-> "line",
             start |-> [x |-> p0.px, y |-> p0.py],
             end |-> [x |-> p1.px, y |-> p1.py],
             thickness |-> pointWidthPt(curr, s.penType),
             color |-> color,
             opacity |-> opacity,
             lineCap |-> "Round"]]

\* mutant: eraser strokes are drawn like ink
renderStroke_NoEraserSkip(s, geo) ==
    IF Len(s.points) < 2 THEN <<>>
    ELSE IF getPenStyle(s.penType).isHighlighter
    THEN renderHighlighterStroke(s, StrokeColor(s), StrokeOpacity(s), geo)
    ELSE Segments(s, StrokeColor(s), StrokeOpacity(s), geo)

renderStroke(s, geo) ==
    IF Len(s.points) < 2 THEN <<>>
    ELSE IF s.penType = "ERASER" \/ s.penType = "ERASER_AREA" THEN <<>>
    ELSE IF getPenStyle(s.penType).isHighlighter
    THEN renderHighlighterStroke(s, StrokeColor(s), StrokeOpacity(s), geo)
    ELSE Segments(s, StrokeColor(s), StrokeOpacity(s), geo)

(***************************************************************************)
(* Text.  A string is a sequence of UTF-16 code units; the model's         *)
(* alphabet:  "a" "b" "x" "1" "." "[" "]" " "  printable Latin-1           *)
(*            "NL"   U+000A        "LS"  U+2028      "PS"  U+2029          *)
(*            "BULLET" U+2022      "WIDE" a code unit above U+00FF that    *)
(*            is no bullet and no separator (e.g. half of an emoji)        *)
(***************************************************************************)
Latin1Units == {"a", "b", "x", "1", ".", "[", "]", " ", "NL"}

\* String.prototype.trim strips white space and line terminators
WhiteSpaceUnits == {" ", "NL", "LS", "PS"}

RECURSIVE TrimStart(_)
TrimStart(s) ==
    IF s # <<>> /\ Head(s) \in WhiteSpaceUnits THEN TrimStart(Tail(s)) ELSE s

RECURSIVE TrimEnd(_)
TrimEnd(s) ==
    IF s # <<>> /\ s[Len(s)] \in WhiteSpaceUnits
    THEN TrimEnd(SubSeq(s, 1, Len(s) - 1))
    ELSE s

Trim(s) == TrimEnd(TrimStart(s))

\* String.prototype.split(sep) for a one-unit separator
RECURSIVE SplitFrom(_, _, _, _)
SplitFrom(s, sep, cur, acc) ==
    IF s = <<>> THEN Append(acc, cur)
    ELSE IF Head(s) = sep THEN SplitFrom(Tail(s), sep, <<>>, Append(acc, cur))
    ELSE SplitFrom(Tail(s), sep, Append(cur, Head(s)), acc)

Split(s, sep) == SplitFrom(s, sep, <<>>, <<>>)

RECURSIVE sanitizeForWinAnsi(_)
sanitizeForWinAnsi(text) ==
    IF text = <<>> THEN <<>>
    ELSE LET c == Head(text)
             rest == sanitizeForWinAnsi(Tail(text))
         IN  IF c \in {"LS", "PS"} THEN <<"NL">> \o rest
             ELSE IF c \in Latin1Units \/ c = "BULLET" THEN <<c>> \o rest
             ELSE rest

\* Paragraph styles
STYLE_PLAIN == 1

STYLE_HEADING == 2

STYLE_BOLD == 3

STYLE_BULLET == 4

STYLE_BULLET2 == 5

STYLE_CHECKBOX == 6

STYLE_CHECKBOX_CHECKED == 7

STYLE_NUMBERED == 10

DEFAULT_FONT == [fontKey |-> "Helvetica", fontSize |-> 10, lineHeight |-> 23]

getFontSetting(style) ==
    CASE style = STYLE_HEADING ->
            [fontKey |-> "HelveticaBold", fontSize |-> 18, lineHeight |-> 26]
      [] style = STYLE_BOLD ->
            [fontKey |-> "HelveticaBold", fontSize |-> 13, lineHeight |-> 23]
      [] OTHER -> DEFAULT_FONT

getStylePrefix(style) ==
    CASE style = STYLE_BULLET -> <<" ", " ", "BULLET", " ">>
      [] style = STYLE_BULLET2 -> <<" ", " ", " ", " ", " ", " ", "BULLET", " ">>
      [] style = STYLE_CHECKBOX -> <<"[", " ", "]", " ">>
      [] style = STYLE_CHECKBOX_CHECKED -> <<"[", "x", "]", " ">>
      [] style = STYLE_NUMBERED -> <<"1", ".", " ">>
      [] OTHER -> <<>>

isBoldStyle(style) == style = STYLE_HEADING \/ style = STYLE_BOLD

\* Advance widths of the standard fonts, in 1/1000 em (Helvetica and
\* Helvetica-Bold metrics).
GlyphAdvance(c, font) ==
    CASE c \in {" ", "."} -> 278
      [] c \in {"[", "]"} -> IF font = "HelveticaBold" THEN 333 ELSE 278
      [] c = "b" -> IF font = "HelveticaBold" THEN 611 ELSE 556
      [] c = "x" -> IF font = "HelveticaBold" THEN 556 ELSE 500
      [] c = "BULLET" -> 350
      [] OTHER -> 556

RECURSIVE SumAdvance(_, _)
SumAdvance(text, font) ==
    IF text = <<>> THEN 0
    ELSE GlyphAdvance(Head(text), font) + SumAdvance(Tail(text), font)

\* font.widthOfTextAtSize(text, fontSize), in 1/1000 pt
widthOfTextAtSize(text, font, fontSize) == SumAdvance(text, font) * fontSize

\* wrapText; maxWidth in 1/XDEN pt.  The loop over the words, from word k on.
RECURSIVE WrapWords(_, _, _, _, _, _, _)
WrapWords(words, k, lines, currentLine, maxWidth, font, fontSize) ==
    IF k > Len(words)
    THEN IF currentLine # <<>> THEN Append(lines, currentLine) ELSE lines
    ELSE LET word == words[k]
             test == Trim(currentLine \o <<" ">> \o word)
             w == widthOfTextAtSize(test, font, fontSize)
         IN  IF w * XDEN <= maxWidth * 1000 \/ currentLine = <<>>
             THEN WrapWords(words, k + 1, lines, test, maxWidth, font, fontSize)
             ELSE WrapWords(words, k + 1, Append(lines, currentLine), word,
                            maxWidth, font, fontSize)

wrapText(text, maxWidth, font, fontSize) ==
    LET lines == WrapWords(Split(text, " "), 1, <<>>, <<>>, maxWidth, font, fontSize)
    IN  IF Len(lines) > 0 THEN lines ELSE << <<>> >>

\* tb.paragraphStyles.get(charOffset) ?? STYLE_PLAIN
StyleAt(tb, charOffset) ==
    IF charOffset \in DOMAIN tb.paragraphStyles
    THEN tb.paragraphStyles[charOffset]
    ELSE STYLE_PLAIN

\* mutant: an empty paragraph leaves the cursor where it is
RECURSIVE RenderParagraphs_EmptySkips(_, _, _, _, _, _)
RenderParagraphs_EmptySkips(tb, paragraphs, pi, cursorY, charOffset, blockX) ==
    IF pi > Len(paragraphs) THEN <<>>
    ELSE
        LET para == paragraphs[pi]
            style == StyleAt(tb, charOffset)
            setting == getFontSetting(style)
            activeFont == IF isBoldStyle(style) THEN "HelveticaBold" ELSE "Helvetica"
            prefix == getStylePrefix(style)
            lines == IF Trim(para) # <<>>
                     THEN wrapText(prefix \o para, tb.width * SCALE_NUM,
                                   activeFont, setting.fontSize)
                     ELSE <<>>
            drawn == [l \in 1..Len(lines) |->
                        [kind |-> "text",
                         text |-> lines[l],
                         x |-> blockX,
                         y |-> cursorY - l * setting.lineHeight * YDEN,
                         size |-> setting.fontSize,
                         font |-> activeFont,
                         color |-> [r |-> 0, g |-> 0, b |-> 0]]]
            nextY == IF Trim(para) # <<>>
                     THEN cursorY - Len(lines) * setting.lineHeight * YDEN
                     ELSE cursorY
        IN  drawn \o RenderParagraphs_EmptySkips(tb, paragraphs, pi + 1, nextY,
                                      charOffset + Len(para) + 1, blockX)

\* renderTextBlock: the loop over the paragraphs, from paragraph pi on;
\* cursorY in 1/YDEN pt.  Yields the drawText operators in order.
RECURSIVE RenderParagraphs(_, _, _, _, _, _)
RenderParagraphs(tb, paragraphs, pi, cursorY, charOffset, blockX) ==
    IF pi > Len(paragraphs) THEN <<>>
    ELSE
        LET para == paragraphs[pi]
            style == StyleAt(tb, charOffset)
            setting == getFontSetting(style)
            activeFont == IF isBoldStyle(style) THEN "HelveticaBold" ELSE "Helvetica"
            prefix == getStylePrefix(style)
            lines == IF Trim(para) # <<>>
                     THEN wrapText(prefix \o para, tb.width * SCALE_NUM,
                                   activeFont, setting.fontSize)
                     ELSE <<>>
            drawn == [l \in 1..Len(lines) |->
                        [kind |-> "text",
                         text |-> lines[l],
                         x |-> blockX,
                         y |-> cursorY - l * setting.lineHeight * YDEN,
                         size |-> setting.fontSize,
                         font |-> activeFont,
                         color |-> [r |-> 0, g |-> 0, b |-> 0]]]
            nextY == IF Trim(para) # <<>>
                     THEN cursorY - Len(lines) * setting.lineHeight * YDEN
                     ELSE cursorY - setting.lineHeight * YDEN
        IN  drawn \o RenderParagraphs(tb, paragraphs, pi + 1, nextY,
                                      charOffset + Len(para) + 1, blockX)

renderTextBlock(tb, geo) ==
    IF Trim(tb.text) = <<>> THEN <<>>
    ELSE RenderParagraphs(tb, Split(sanitizeForWinAnsi(tb.text), "NL"), 1,
                          toPdf(0, tb.posY, geo).py, 0,
                          toPdf(tb.posX, tb.posY, geo).px)

(***************************************************************************)
(* PDF documents.  A document (the bytes of one) is                        *)
(*   [loads |-> BOOLEAN, pages |-> sequence of PDF pages]                  *)
(* where loads says whether PDFDocument.load accepts the bytes, and a PDF  *)
(* page is [width (1/XDEN pt), height (1/YDEN pt), ops, embeds], ops the   *)
(* page's content in paint order and embeds whether another document's     *)
(* page can be embedded into it.  An operator pushed by renderPageToPdf    *)
(* also records where it comes from: layer and index of the stroke, or     *)
(* layer 0 and the index of the text block.  A page made by                *)
(* renderPageToPdf records in "of" the pageId of the Page it renders.      *)
(***************************************************************************)
RECURSIVE ConcatAll(_)
ConcatAll(ss) == IF ss = <<>> THEN <<>> ELSE Head(ss) \o ConcatAll(Tail(ss))

From(ops, li, si) == [i \in DOMAIN ops |-> ops[i] @@ [layer |-> li, index |-> si]]

\* mutant: every stroke is drawn in the first loop, in layer order
StrokePass_OnePass(page, geo, highlighter) ==
    ConcatAll([li \in DOMAIN page.layers |->
        ConcatAll([si \in DOMAIN page.layers[li].strokes |->
            IF highlighter
            THEN From(renderStroke(page.layers[li].strokes[si], geo), li, si)
            ELSE <<>>])])

\* one of the two loops over page.layers of renderPageToPdf: the strokes
\* whose pen style has isHighlighter = highlighter
StrokePass(page, geo, highlighter) ==
    ConcatAll([li \in DOMAIN page.layers |->
        ConcatAll([si \in DOMAIN page.layers[li].strokes |->
            LET s == page.layers[li].strokes[si] IN
            IF getPenStyle(s.penType).isHighlighter = highlighter
            THEN From(renderStroke(s, geo), li, si)
            ELSE <<>>])])

TextPass(page, geo) ==
    ConcatAll([bi \in DOMAIN page.textBlocks |->
        From(renderTextBlock(page.textBlocks[bi], geo), 0, bi)])

\* doc.save() of the annotation document
AnnotationPdf(page, ops) ==
    LET geo == computePageGeometry(page) IN
    [loads |-> TRUE,
     pages |-> << [width |-> geo.pageWidthPt, height |-> geo.pageHeightPt,
                   ops |-> ops, embeds |-> TRUE, of |-> page.pageId] >>]

\* mutant: a background that cannot be merged fails the page
mergeWithBackground_NoCatch(annotationPdf, backgroundPdf) ==
    IF Len(backgroundPdf.pages) = 0 THEN annotationPdf
    ELSE LET bgPage == backgroundPdf.pages[1] IN
         [loads |-> backgroundPdf.loads /\ bgPage.embeds,
          pages |-> << [bgPage EXCEPT !.ops = @ \o
                          << [kind |-> "drawPage", page |-> annotationPdf.pages[1],
                              x |-> 0, y |-> 0,
                              width |-> bgPage.width, height |-> bgPage.height] >>] >>
                       \o Tail(backgroundPdf.pages)]

mergeWithBackground(annotationPdf, backgroundPdf) ==
    IF ~backgroundPdf.loads \/ ~annotationPdf.loads THEN annotationPdf
    ELSE IF Len(backgroundPdf.pages) = 0 THEN annotationPdf
    ELSE LET bgPage == backgroundPdf.pages[1] IN
         IF Len(annotationPdf.pages) > 0
         THEN IF ~bgPage.embeds THEN annotationPdf
              ELSE [loads |-> TRUE,
                    pages |-> << [bgPage EXCEPT !.ops = @ \o
                                    << [kind |-> "drawPage",
                                        page |-> annotationPdf.pages[1],
                                        x |-> 0, y |-> 0,
                                        width |-> bgPage.width,
                                        height |-> bgPage.height] >>] >>
                                 \o Tail(backgroundPdf.pages)]
         ELSE backgroundPdf

\* the content of the page renderPageToPdf builds
PageContent(page) ==
    LET geo == computePageGeometry(page) IN
    StrokePass(page, geo, TRUE) \o StrokePass(page, geo, FALSE) \o TextPass(page, geo)

\* backgroundPdf: Null (undefined) or Some(bytes)
renderPageToPdf(page, backgroundPdf) ==
    LET annotationBytes == AnnotationPdf(page, PageContent(page)) IN
    IF ~IsNull(backgroundPdf)
    THEN mergeWithBackground(annotationBytes, Get(backgroundPdf))
    ELSE annotationBytes

(***************************************************************************)
(* document-converter.ts.                                                  *)
(* A raw .rm buffer is [decodes, page]: whether parseRmFile accepts it,    *)
(* and the Page it returns.  An original PDF is a document whose pages     *)
(* also say whether copyPages can copy them (copies).                      *)
(***************************************************************************)
emptyPage(pageId) ==
    [pageId |-> pageId, layers |-> <<>>, textSpans |-> <<>>, textBlocks |-> <<>>,
     width |-> 1404, height |-> 1872 * HDEN]

\* parseRmFile: [threw, page]
parseRmFile(buffer) ==
    IF buffer.decodes THEN [threw |-> FALSE, page |-> buffer.page]
    ELSE [threw |-> TRUE, page |-> Null]

\* the maximum of pt.y over every point of every stroke of every layer,
\* starting from 0
RECURSIVE MaxOf(_, _)
MaxOf(ys, m) ==
    IF ys = <<>> THEN m
    ELSE MaxOf(Tail(ys), IF Head(ys) > m THEN Head(ys) ELSE m)

\* pt.y of every point, in 1/YSUB device units
PointYs(pg) ==
    ConcatAll([li \in DOMAIN pg.layers |->
        ConcatAll([si \in DOMAIN pg.layers[li].strokes |->
            [k \in DOMAIN pg.layers[li].strokes[si].points |->
                pg.layers[li].strokes[si].points[k].y * YSUB
                + pg.layers[li].strokes[si].points[k].ySub]])])

\* mutant: the margin of 5 % is forgotten
ExtendScrolledPage_NoMargin(pg, verticalScroll) ==
    IF ~IsNull(verticalScroll)
    THEN LET defaultHeight == pg.height
             maxY == MaxOf(PointYs(pg), 0)
             scaledHeight == maxY * (177 \div YSUB)
         IN  IF scaledHeight > defaultHeight
             THEN [pg EXCEPT !.height = scaledHeight]
             ELSE pg
    ELSE pg

\* mutant: a page whose content reaches the threshold exactly is extended
ExtendScrolledPage_AtThreshold(pg, verticalScroll) ==
    IF ~IsNull(verticalScroll)
    THEN LET defaultHeight == pg.height
             maxY == MaxOf(PointYs(pg), 0)
             scaledHeight == maxY * (177 \div YSUB)
         IN  IF scaledHeight * 100 >= defaultHeight * 105
             THEN [pg EXCEPT !.height = scaledHeight]
             ELSE pg
    ELSE pg

\* lines 98-113: the page with its height extended when the content of a
\* vertically scrolled page exceeds 1.05 x the default height
ExtendScrolledPage(pg, verticalScroll) ==
    IF ~IsNull(verticalScroll)
    THEN LET defaultHeight == pg.height
             maxY == MaxOf(PointYs(pg), 0)
             \* maxY * 0.885, in 1/HDEN device units
             scaledHeight == maxY * (177 \div YSUB)
         IN  \* scaledHeight > defaultHeight * 1.05
             IF scaledHeight * 100 > defaultHeight * 105
             THEN [pg EXCEPT !.height = scaledHeight]
             ELSE pg
    ELSE pg

\* re-render.ts lines 40-54: the page after "auto-detect extended pages"
ReRenderExtend(pg) ==
    LET defaultHeight == pg.height
        maxY == MaxOf(PointYs(pg), 0)
        scaledHeight == maxY * (177 \div YSUB)
    IN  IF scaledHeight * 100 > defaultHeight * 105
        THEN [pg EXCEPT !.height = scaledHeight]
        ELSE pg

\* mutant: a page that does not decode is dropped
ParsedPagesFor_DropUnreadable(pageInfo) ==
    IF ~IsNull(pageInfo.rmData)
    THEN LET parsed == parseRmFile(Get(pageInfo.rmData)) IN
         IF parsed.threw THEN <<>>
         ELSE << ExtendScrolledPage([parsed.page EXCEPT !.pageId = pageInfo.pageId],
                                    pageInfo.verticalScroll) >>
    ELSE << emptyPage(pageInfo.pageId) >>

\* mutant: the page is built anew from the decoded layers, the text is lost
ParsedPagesFor_LayersOnly(pageInfo) ==
    IF ~IsNull(pageInfo.rmData)
    THEN LET parsed == parseRmFile(Get(pageInfo.rmData)) IN
         IF parsed.threw THEN << emptyPage(pageInfo.pageId) >>
         ELSE << ExtendScrolledPage([emptyPage(pageInfo.pageId) EXCEPT
                                        !.layers = parsed.page.layers],
                                    pageInfo.verticalScroll) >>
    ELSE << emptyPage(pageInfo.pageId) >>

\* lines 86-121: what one iteration pushes on parsedPages
ParsedPagesFor(pageInfo) ==
    IF ~IsNull(pageInfo.rmData)
    THEN LET parsed == parseRmFile(Get(pageInfo.rmData)) IN
         IF parsed.threw THEN << emptyPage(pageInfo.pageId) >>
         ELSE << ExtendScrolledPage([parsed.page EXCEPT !.pageId = pageInfo.pageId],
                                    pageInfo.verticalScroll) >>
    ELSE << emptyPage(pageInfo.pageId) >>

\* extractPdfPage; pageNum counts from 0.  Null, or the bytes of a
\* one-page document.
extractPdfPage(pdfData, pageNum) ==
    IF ~pdfData.loads THEN Null
    ELSE IF pageNum >= Len(pdfData.pages) THEN Null
    ELSE IF ~pdfData.pages[pageNum + 1].copies THEN Null
    ELSE Some([loads |-> TRUE, pages |-> << pdfData.pages[pageNum + 1] >>])

\* lines 123-132: what iteration i (from 1) pushes on backgroundPdfs
BackgroundFor(doc, i) ==
    IF ~IsNull(doc.originalPdf)
    THEN extractPdfPage(Get(doc.originalPdf), i - 1)
    ELSE Null

\* mutant: the pages of a page document are put in front
addPages_InFront(outputPages, pageDoc) == pageDoc.pages \o outputPages

\* renderNotebookToPdf lines 733-737: copy every page of pageDoc to the end
addPages(outputPages, pageDoc) == outputPages \o pageDoc.pages

Resolved(bytes) == [status |-> "resolved", bytes |-> Some(bytes), error |-> ""]

Rejected(error) == [status |-> "rejected", bytes |-> Null, error |-> error]

(***************************************************************************)
(* Inputs of renderStroke.                                                 *)
(***************************************************************************)
MaxPoints == 3

\* raw point widths: zero, below every minimum, between the maxima of the
\* ballpoint and the fineliner, and far above every maximum
RawWidths == {0, 3, 45, 10000}

\* palette indices: inside 0..13 and outside
ColorIndices == {0, 6, 14}

\* the 32 bit two's complement value of the bytes a, r, g, b
PackArgb(a, r, g, b) ==
    (IF a >= 128 THEN a - 256 ELSE a) * (2 ^ 24) + r * (2 ^ 16) + g * (2 ^ 8) + b

ColorOverrides ==
    {Null, Some(PackArgb(255, 255, 0, 0)), Some(PackArgb(128, 0, 255, 64)),
     Some(PackArgb(0, 16, 32, 255))}

\* the i-th point of a stroke lies at a position of its own
PointPos(i) ==
    [x |-> ((503 * (i - 1) + 489) % RM_DEFAULT_WIDTH_PX) - 702,
     y |-> (1000 * (i - 1)) % 2500]

PointSeqs ==
    UNION {[1..n -> RawWidths] : n \in 0..MaxPoints}

MkPoints(ws) ==
    [i \in 1..Len(ws) |->
        [x |-> PointPos(i).x, y |-> PointPos(i).y, ySub |-> 0, width |-> ws[i]]]

Strokes ==
    {[penType |-> p, color |-> c, colorArgb |-> o, points |-> MkPoints(ws)] :
        p \in PenTypes, c \in ColorIndices, o \in ColorOverrides, ws \in PointSeqs}

\* page heights in 1/HDEN device units: the default, and an extended page
PageHeights == {RM_DEFAULT_HEIGHT_PX * HDEN, 2400 * 177}

BlankPage(h) ==
    [pageId |-> "p", layers |-> <<>>, textSpans |-> <<>>, textBlocks |-> <<>>,
     width |-> RM_DEFAULT_WIDTH_PX, height |-> h]

(***************************************************************************)
(* SpecStroke: one call of renderStroke on a fresh page.                   *)
(***************************************************************************)
\* the variables of a function that is not being called
StrokeIdle ==
    /\ stroke = [penType |-> "UNKNOWN", color |-> 0, colorArgb |-> Null, points |-> <<>>]
    /\ strokeGeo = computePageGeometry(BlankPage(RM_DEFAULT_HEIGHT_PX * HDEN))
    /\ strokeOps = <<>>
    /\ strokePc = "idle"

PageIdle ==
    /\ pageIn = BlankPage(RM_DEFAULT_HEIGHT_PX * HDEN)
    /\ pageBg = Null
    /\ pageOps = <<>>
    /\ pagePc = "idle"
    /\ pageOut = Null

Pending == [status |-> "pending", bytes |-> Null, error |-> ""]

ConvIdle ==
    /\ content = [pages |-> <<>>, originalPdf |-> Null]
    /\ convPc = "idle"
    /\ convI = 1
    /\ parsedPages = <<>>
    /\ backgroundPdfs = <<>>
    /\ nbI = 1
    /\ outputDoc = <<>>
    /\ result = Pending

WrapIdle ==
    /\ wrapArgs = [text |-> <<>>, maxWidth |-> 0, font |-> "Helvetica", fontSize |-> 10]
    /\ wrapLines = Null
    /\ wrapPc = "idle"

ReRenderIdle ==
    /\ rrPageInfo = [pageId |-> "", rmData |-> Null, template |-> Null,
                     verticalScroll |-> Null]
    /\ rrConverted = Null
    /\ rrRendered = Null

\* constants.ts: SYNC_INTERVALS, in ms
SYNC_INTERVALS ==
    [l \in {"Manual only", "Every 5 minutes", "Every 15 minutes",
            "Every 30 minutes", "Every 60 minutes"} |->
        CASE l = "Manual only" -> 0
          [] l = "Every 5 minutes" -> 5 * 60 * 1000
          [] l = "Every 15 minutes" -> 15 * 60 * 1000
          [] l = "Every 30 minutes" -> 30 * 60 * 1000
          [] OTHER -> 60 * 60 * 1000]

\* the plugin object before onload
PluginIdle ==
    /\ pluginPc = "new"
    /\ settings = [isAuthenticated |-> FALSE, syncIntervalLabel |-> "Manual only",
                   lastSyncTime |-> Null]
    /\ isSyncing = FALSE
    /\ syncIntervalId = Null
    /\ timers = {}
    /\ timerCount = 0
    /\ calls = <<>>
    /\ managersCreated = 0
    /\ syncCalls = 0

\* the ids of the documents of the model
DocIds == {"d1", "d2", "d3"}

\* new SyncState(), lines 28-29
EmptySyncState == [lastSync |-> Null, syncedDocs |-> [d \in DocIds |-> Null]]

NoResults == [synced |-> <<>>, skipped |-> <<>>, errors |-> <<>>]

NoFileOps == [mkdir |-> 0, writeBinaryFile |-> 0, writeFile |-> 0]

DefaultOpts == [folderFilter |-> Null, force |-> FALSE, dryRun |-> FALSE]

SyncIdle ==
    /\ cloudVersion = [d \in DocIds |-> 1]
    /\ stateFile = Null
    /\ state = EmptySyncState
    /\ managerPc = "none"
    /\ opts = DefaultOpts
    /\ filtered = <<>>
    /\ syncI = 1
    /\ results = NoResults
    /\ downloads = {}
    /\ fileOpsCalls = NoFileOps
    /\ syncCount = 0
    /\ syncedOk = [d \in DocIds |-> 0]

AppIdle == WrapIdle /\ ReRenderIdle /\ PluginIdle /\ SyncIdle

InitStroke ==
    /\ stroke \in Strokes
    /\ strokeGeo \in {computePageGeometry(BlankPage(h)) : h \in PageHeights}
    /\ strokeOps = <<>>
    /\ strokePc = "call"
    /\ PageIdle
    /\ ConvIdle
    /\ AppIdle

RenderStrokeCall ==
    /\ strokePc = "call"
    /\ strokeOps' = strokeOps \o renderStroke(stroke, strokeGeo)
    /\ stroke' = StrokeAfterRender(stroke)
    /\ strokePc' = "returned"
    /\ UNCHANGED <<appVars, strokeGeo, pageVars, convVars>>

NextStroke == RenderStrokeCall

SpecStroke == InitStroke /\ [][NextStroke]_vars

(***************************************************************************)
(* Inputs of renderPageToPdf.                                              *)
(***************************************************************************)
MaxStrokes == 2

MaxLayers == 2

\* a stroke of three points of the given pen, the widths not in order
InkStroke(penType) ==
    [penType |-> penType, color |-> 0, colorArgb |-> Null,
     points |-> MkPoints(<<45, 3, 10000>>)]

Layers ==
    {[strokes |-> [i \in 1..n |-> InkStroke(ks[i])]] :
        n \in {0}, ks \in {<<>>}}
    \cup
    UNION {{[strokes |-> [i \in 1..n |-> InkStroke(ks[i])]] :
                ks \in [1..n -> {"HIGHLIGHTER_1", "FINELINER_1"}]} :
            n \in 1..MaxStrokes}
    \cup
    {[strokes |-> <<InkStroke("ERASER"), InkStroke("SHADER")>>],
     [strokes |-> <<InkStroke("PENCIL_2"), InkStroke("HIGHLIGHTER_2")>>]}

\* a heading that wraps, an empty paragraph, a bulleted paragraph
TextBlockA ==
    [posX |-> -600, posY |-> 200, width |-> 100,
     text |-> <<"a", "b", " ", "a", "NL", "NL", "b">>,
     paragraphStyles |-> (0 :> STYLE_HEADING @@ 6 :> STYLE_BULLET)]

\* white space only
TextBlockB ==
    [posX |-> 0, posY |-> 0, width |-> 100, text |-> <<" ", "LS">>,
     paragraphStyles |-> (0 :> STYLE_BOLD)]

TextBlockSeqs == {<<>>, <<TextBlockB, TextBlockA>>}

\* a code unit that sanitization removes, ahead of a bold paragraph
TextBlockC ==
    [posX |-> -600, posY |-> 300, width |-> 1000,
     text |-> <<"WIDE", "a", "NL", "b">>,
     paragraphStyles |-> (0 :> STYLE_HEADING @@ 3 :> STYLE_BOLD)]

\* an empty first paragraph, then a bold and a plain one, apart by U+2028
TextBlockD ==
    [posX |-> 0, posY |-> 900, width |-> 1000,
     text |-> <<"NL", "a", "LS", "b">>,
     paragraphStyles |-> (1 :> STYLE_BOLD)]

\* a page of an original PDF (US Letter), its content named by id
OriginalPage(id, copies, embeds) ==
    [width |-> 612 * XDEN, height |-> 792 * YDEN,
     ops |-> << [kind |-> "original", id |-> id] >>,
     copies |-> copies, embeds |-> embeds]

Backgrounds ==
    {Null,
     Some([loads |-> TRUE, pages |-> <<OriginalPage(1, TRUE, TRUE)>>]),
     Some([loads |-> TRUE, pages |-> <<OriginalPage(1, TRUE, FALSE)>>]),
     Some([loads |-> TRUE, pages |-> <<>>]),
     Some([loads |-> FALSE, pages |-> <<>>])}

\* pages of strokes and text, and pages of text alone
Pages ==
    {[pageId |-> "p", layers |-> ls, textSpans |-> <<>>, textBlocks |-> tbs,
      width |-> RM_DEFAULT_WIDTH_PX, height |-> h] :
        ls \in UNION {[1..n -> Layers] : n \in 0..MaxLayers},
        tbs \in TextBlockSeqs, h \in PageHeights}
    \cup
    {[BlankPage(RM_DEFAULT_HEIGHT_PX * HDEN) EXCEPT !.textBlocks = tbs] :
        tbs \in {<<TextBlockC>>, <<TextBlockD, TextBlockA>>}}

(***************************************************************************)
(* SpecPage: one call of renderPageToPdf, loop by loop.                    *)
(***************************************************************************)
\* every kind of background for the pages of at most one layer; none or a
\* good one for the larger pages
InitPage ==
    /\ pageIn \in Pages
    /\ pageBg \in IF Len(pageIn.layers) <= 1
                 THEN Backgrounds
                 ELSE {Null, Some([loads |-> TRUE, pages |-> <<OriginalPage(1, TRUE, TRUE)>>])}
    /\ pageOps = <<>>
    /\ pagePc = "highlighters"
    /\ pageOut = Null
    /\ StrokeIdle
    /\ ConvIdle
    /\ AppIdle

RenderHighlighters ==
    /\ pagePc = "highlighters"
    /\ pageOps' = pageOps \o StrokePass(pageIn, computePageGeometry(pageIn), TRUE)
    /\ pageIn' = PageAfterRender(pageIn)
    /\ pagePc' = "regular"
    /\ UNCHANGED <<appVars, pageBg, pageOut, strokeVars, convVars>>

RenderRegular ==
    /\ pagePc = "regular"
    /\ pageOps' = pageOps \o StrokePass(pageIn, computePageGeometry(pageIn), FALSE)
    /\ pagePc' = "text"
    /\ UNCHANGED <<appVars, pageIn, pageBg, pageOut, strokeVars, convVars>>

RenderTextBlocks ==
    /\ pagePc = "text"
    /\ pageOps' = pageOps \o TextPass(pageIn, computePageGeometry(pageIn))
    /\ pagePc' = "save"
    /\ UNCHANGED <<appVars, pageIn, pageBg, pageOut, strokeVars, convVars>>

SaveAndMerge ==
    /\ pagePc = "save"
    /\ pageOut' = Some(IF ~IsNull(pageBg)
                       THEN mergeWithBackground(AnnotationPdf(pageIn, pageOps), Get(pageBg))
                       ELSE AnnotationPdf(pageIn, pageOps))
    /\ pagePc' = "done"
    /\ UNCHANGED <<appVars, pageIn, pageBg, pageOps, strokeVars, convVars>>

NextPage == RenderHighlighters \/ RenderRegular \/ RenderTextBlocks \/ SaveAndMerge

SpecPage == InitPage /\ [][NextPage]_vars

(***************************************************************************)
(* Inputs of convertToPdf.                                                 *)
(***************************************************************************)
MaxPages == 2

MaxPdfPages == 2

\* what the parser returns for three .rm files: an empty page; the page
\* with one two-point fineliner stroke; a page with a highlighter stroke,
\* an ink stroke reaching y = 2400 and a text block
DecodedBlank == [emptyPage("") EXCEPT !.pageId = ""]

DecodedFineliner ==
    [emptyPage("") EXCEPT
        !.layers = << [strokes |-> << [penType |-> "FINELINER_1", color |-> 6,
                                       colorArgb |-> Null,
                                       points |-> MkPoints(<<10, 20>>)] >>] >>]

DecodedLong ==
    [emptyPage("") EXCEPT
        !.layers = << [strokes |->
            << InkStroke("HIGHLIGHTER_1"),
               [penType |-> "BALLPOINT_1", color |-> 0, colorArgb |-> Null,
                points |-> << [x |-> 0, y |-> 100, ySub |-> 0, width |-> 20],
                              [x |-> 100, y |-> 2400, ySub |-> 0, width |-> 20],
                              [x |-> 0, y |-> 1900, ySub |-> 0, width |-> 20] >>] >>] >>,
        !.textBlocks = <<TextBlockA>>]

\* a page whose one fineliner stroke runs from y = 100 down to y = bottom
DecodedTo(bottom) ==
    [emptyPage("") EXCEPT
        !.layers = << [strokes |->
            << [penType |-> "FINELINER_1", color |-> 6, colorArgb |-> Null,
                points |-> << [x |-> -213, y |-> 100, ySub |-> 0, width |-> 20],
                              [x |-> 290, y |-> bottom, ySub |-> 0, width |-> 20] >>] >>] >>]

\* the same page down to y = 1900, with an erased stroke below it whose
\* lowest point lies at y = reach / YSUB
DecodedErased(reach) ==
    [emptyPage("") EXCEPT
        !.layers = << [strokes |->
            << DecodedTo(1900).layers[1].strokes[1],
               [penType |-> "ERASER", color |-> 0, colorArgb |-> Null,
                points |-> << [x |-> 0, y |-> 2000, ySub |-> 0, width |-> 20],
                              [x |-> 5, y |-> reach \div YSUB, ySub |-> reach % YSUB,
                               width |-> 20] >>] >>] >>]

\* maxY for which maxY * 0.885 = 1872 * 1.05, in 1/YSUB device units
ThresholdReach == (RM_DEFAULT_HEIGHT_PX * 105 * 2 * YSUB) \div 177

\* the buffers of pages whose content ends below, at and above the threshold
ThresholdBuffers ==
    {[decodes |-> TRUE, page |-> DecodedTo(1900)],
     [decodes |-> TRUE, page |-> DecodedTo(2200)],
     [decodes |-> TRUE, page |-> DecodedErased(ThresholdReach - 1)],
     [decodes |-> TRUE, page |-> DecodedErased(ThresholdReach)],
     [decodes |-> TRUE, page |-> DecodedErased(ThresholdReach + 1)]}

RmBuffers ==
    {[decodes |-> FALSE, page |-> DecodedBlank],
     [decodes |-> TRUE, page |-> DecodedBlank],
     [decodes |-> TRUE, page |-> DecodedFineliner],
     [decodes |-> TRUE, page |-> DecodedLong]}

PageIds == <<"p1", "p2", "p3", "p4">>

\* page i of a document of n pages; the page of a one-page document also
\* takes the pages around the threshold
PageInfos(i, n) ==
    {[pageId |-> PageIds[i], rmData |-> d, template |-> Null, verticalScroll |-> v] :
        d \in {Null} \cup {Some(b) : b \in RmBuffers}
               \cup (IF n = 1 THEN {Some(b) : b \in ThresholdBuffers} ELSE {}),
        v \in {Null, Some(0)}}

PageInfoSeqs ==
    UNION {{f \in [1..n -> UNION {PageInfos(i, n) : i \in 1..n}] :
                \A i \in 1..n : f[i] \in PageInfos(i, n)} : n \in 0..MaxPages}

\* the pages of an original PDF: page k has content k
OriginalPdfs ==
    {[loads |-> FALSE, pages |-> <<>>]}
    \cup
    UNION {{[loads |-> TRUE,
             pages |-> [k \in 1..n |->
                OriginalPage(k, q[k] # "nocopy", q[k] # "noembed")]] :
                q \in [1..n -> {"good", "nocopy", "noembed"}]} : n \in 0..MaxPdfPages}

Documents ==
    {[pages |-> ps, originalPdf |-> o] :
        ps \in PageInfoSeqs, o \in {Null} \cup {Some(d) : d \in OriginalPdfs}}

(***************************************************************************)
(* Spec: one call of convertToPdf on a parsed document.                    *)
(***************************************************************************)
Init ==
    /\ content \in Documents
    /\ convPc = "start"
    /\ convI = 1
    /\ parsedPages = <<>>
    /\ backgroundPdfs = <<>>
    /\ nbI = 1
    /\ outputDoc = <<>>
    /\ result = Pending
    /\ StrokeIdle
    /\ PageIdle
    /\ AppIdle

\* mutant: a document without pages is converted like any other
CheckPages_NoCheck ==
    /\ convPc = "start"
    /\ convPc' = IF Len(content.pages) = 0 THEN "render" ELSE "loop"
    /\ UNCHANGED <<appVars, content, convI, parsedPages, backgroundPdfs, nbI, outputDoc,
                   result, strokeVars, pageVars>>

\* lines 74-81
CheckPages ==
    /\ convPc = "start"
    /\ IF Len(content.pages) = 0
       THEN /\ result' = Rejected("No pages found in document")
            /\ convPc' = "failed"
       ELSE /\ result' = result
            /\ convPc' = "loop"
    /\ UNCHANGED <<appVars, content, convI, parsedPages, backgroundPdfs, nbI, outputDoc,
                   strokeVars, pageVars>>

\* lines 83-133: one iteration of the loop over content.pages
ConvertPage ==
    /\ convPc = "loop"
    /\ convI <= Len(content.pages)
    /\ parsedPages' = parsedPages \o ParsedPagesFor(content.pages[convI])
    /\ backgroundPdfs' = Append(backgroundPdfs, BackgroundFor(content, convI))
    /\ convI' = convI + 1
    /\ convPc' = IF convI = Len(content.pages) THEN "render" ELSE "loop"
    /\ UNCHANGED <<appVars, content, nbI, outputDoc, result, strokeVars, pageVars>>

\* lines 135-137
RenderSinglePage ==
    /\ convPc = "render"
    /\ Len(parsedPages) = 1
    /\ result' = Resolved(renderPageToPdf(parsedPages[1], backgroundPdfs[1]))
    /\ parsedPages' = [parsedPages EXCEPT ![1] = PageAfterRender(@)]
    /\ convPc' = "done"
    /\ UNCHANGED <<appVars, content, convI, backgroundPdfs, nbI, outputDoc,
                   strokeVars, pageVars>>

\* renderNotebookToPdf lines 729-738: one iteration of the loop over pages
NotebookPage ==
    /\ convPc = "render"
    /\ Len(parsedPages) # 1
    /\ nbI <= Len(parsedPages)
    /\ LET background == IF nbI <= Len(backgroundPdfs) THEN backgroundPdfs[nbI] ELSE Null
           pagePdfBytes == renderPageToPdf(parsedPages[nbI], background)
       IN  IF pagePdfBytes.loads
           THEN /\ outputDoc' = addPages(outputDoc, pagePdfBytes)
                /\ nbI' = nbI + 1
                /\ UNCHANGED <<convPc, result>>
           ELSE \* PDFDocument.load throws
                /\ result' = Rejected("Failed to parse PDF document")
                /\ convPc' = "failed"
                /\ UNCHANGED <<outputDoc, nbI>>
    /\ parsedPages' = [parsedPages EXCEPT ![nbI] = PageAfterRender(@)]
    /\ UNCHANGED <<appVars, content, convI, backgroundPdfs, strokeVars, pageVars>>

\* renderNotebookToPdf line 740
NotebookSave ==
    /\ convPc = "render"
    /\ Len(parsedPages) # 1
    /\ nbI > Len(parsedPages)
    /\ result' = Resolved([loads |-> TRUE, pages |-> outputDoc])
    /\ convPc' = "done"
    /\ UNCHANGED <<appVars, content, convI, parsedPages, backgroundPdfs, nbI, outputDoc,
                   strokeVars, pageVars>>

Next == CheckPages \/ ConvertPage \/ RenderSinglePage \/ NotebookPage \/ NotebookSave

Spec == Init /\ [][Next]_vars

(***************************************************************************)
(* SpecRender: a call of renderStroke on its own, or a call of             *)
(* convertToPdf.                                                           *)
(***************************************************************************)
InitRender == InitStroke \/ Init

NextRender ==
    \/ RenderStrokeCall
    \/ CheckPages
    \/ ConvertPage
    \/ RenderSinglePage
    \/ NotebookPage
    \/ NotebookSave

SpecRender == InitRender /\ [][NextRender]_vars

(***************************************************************************)
(* SpecWrap: one call of wrapText.                                         *)
(***************************************************************************)
MaxText == 5

\* the code units of a sanitized paragraph that wrapText tells apart
WrapUnits == {"a", "b", " "}

WrapTexts == UNION {[1..n -> WrapUnits] : n \in 0..MaxText}

\* blockWidthPt in 1/XDEN pt: narrower than any word, one letter wide, two
\* letters and a space wide, wider than every text
WrapWidths == {5 * XDEN, 6 * XDEN, 14 * XDEN, 60 * XDEN}

InitWrap ==
    /\ wrapArgs \in [text : WrapTexts, maxWidth : WrapWidths,
                      font : {"Helvetica", "HelveticaBold"}, fontSize : {10}]
    /\ wrapLines = Null
    /\ wrapPc = "call"
    /\ StrokeIdle
    /\ PageIdle
    /\ ConvIdle
    /\ ReRenderIdle
    /\ PluginIdle
    /\ SyncIdle

WrapTextCall ==
    /\ wrapPc = "call"
    /\ wrapLines' = Some(wrapText(wrapArgs.text, wrapArgs.maxWidth,
                                  wrapArgs.font, wrapArgs.fontSize))
    /\ wrapPc' = "returned"
    /\ UNCHANGED <<wrapArgs, renderVars, rrVars, pluginVars, syncVars>>

NextWrap == WrapTextCall

SpecWrap == InitWrap /\ [][NextWrap]_vars

(***************************************************************************)
(* SpecReRender: one .rm file through the page loop of convertToPdf and    *)
(* through the page loop of re-render.ts.                                  *)
(***************************************************************************)
\* re-render.ts reads files: the page always has its data
InitReRender ==
    /\ rrPageInfo \in {p \in UNION {PageInfos(i, 1) : i \in 1..MaxPages} :
                            ~IsNull(p.rmData)}
    /\ rrConverted = Null
    /\ rrRendered = Null
    /\ StrokeIdle
    /\ PageIdle
    /\ ConvIdle
    /\ WrapIdle
    /\ PluginIdle
    /\ SyncIdle

\* document-converter.ts lines 83-121, one iteration
ConverterIteration ==
    /\ IsNull(rrConverted)
    /\ rrConverted' = Some(ParsedPagesFor(rrPageInfo)[1])
    /\ UNCHANGED <<rrPageInfo, rrRendered, renderVars, wrapVars, pluginVars, syncVars>>

\* re-render.ts lines 36-57, one iteration; parseRmFile may throw, which
\* ends the directory (line 69)
ReRenderIteration ==
    /\ IsNull(rrRendered)
    /\ LET parsed == parseRmFile(Get(rrPageInfo.rmData)) IN
       rrRendered' = Some(IF parsed.threw THEN [threw |-> TRUE, page |-> Null]
                          ELSE [threw |-> FALSE, page |-> ReRenderExtend(parsed.page)])
    /\ UNCHANGED <<rrPageInfo, rrConverted, renderVars, wrapVars, pluginVars, syncVars>>

NextReRender == ConverterIteration \/ ReRenderIteration

SpecReRender == InitReRender /\ [][NextReRender]_vars

(***************************************************************************)
(* SpecPlugin: the plugin object (main.ts).  JavaScript runs one handler   *)
(* at a time; an async function gives way at each await, so runSync is one *)
(* action from its call to its first await and one action per awaited      *)
(* promise that settles.                                                   *)
(***************************************************************************)
MaxCalls == 3

MaxTimers == 3

\* stored and selectable labels; "Hourly" is no key of SYNC_INTERVALS
IntervalLabels == {"Manual only", "Every 5 minutes", "Every 60 minutes", "Hourly"}

\* the interval timer fields of the plugin and of the window
Window == [syncIntervalId |-> syncIntervalId, timers |-> timers, timerCount |-> timerCount]

\* lines 264-269
stopAutoSync(w) ==
    IF ~IsNull(w.syncIntervalId)
    THEN [w EXCEPT !.timers = @ \ {Get(w.syncIntervalId)}, !.syncIntervalId = Null]
    ELSE w

\* mutant: the running interval is not stopped first
restartAutoSync_NoStop(w, label) ==
    LET intervalMs == IF label \in DOMAIN SYNC_INTERVALS
                      THEN Some(SYNC_INTERVALS[label]) ELSE Null
    IN  IF ~IsNull(intervalMs) /\ Get(intervalMs) > 0
        THEN [syncIntervalId |-> Some(w.timerCount + 1),
              timers |-> w.timers \cup {w.timerCount + 1},
              timerCount |-> w.timerCount + 1]
        ELSE w

\* lines 253-262; SYNC_INTERVALS[label] is undefined for an unknown label
restartAutoSync(w, label) ==
    LET s == stopAutoSync(w)
        intervalMs == IF label \in DOMAIN SYNC_INTERVALS
                      THEN Some(SYNC_INTERVALS[label]) ELSE Null
    IN  IF ~IsNull(intervalMs) /\ Get(intervalMs) > 0
        THEN [syncIntervalId |-> Some(s.timerCount + 1),
              timers |-> s.timers \cup {s.timerCount + 1},
              timerCount |-> s.timerCount + 1]
        ELSE s

SetWindow(w) ==
    /\ syncIntervalId' = w.syncIntervalId
    /\ timers' = w.timers
    /\ timerCount' = w.timerCount

InitPlugin ==
    /\ PluginIdle
    /\ StrokeIdle
    /\ PageIdle
    /\ ConvIdle
    /\ WrapIdle
    /\ ReRenderIdle
    /\ SyncIdle

\* onload, lines 16-70: loadSettings reads the stored label, client.init the
\* stored tokens; the ribbon icon and the commands exist from here on
Onload ==
    /\ pluginPc \in {"new", "unloaded"}
    /\ \E label \in IntervalLabels, auth \in BOOLEAN :
          /\ restartAutoSync(Window, label).timerCount <= MaxTimers
          /\ settings' = [settings EXCEPT !.syncIntervalLabel = label,
                                          !.isAuthenticated = auth]
          /\ SetWindow(restartAutoSync(Window, label))
    /\ pluginPc' = "loaded"
    /\ UNCHANGED <<isSyncing, calls, managersCreated, syncCalls, renderVars,
                   wrapVars, rrVars, syncVars>>

\* the settings tab stores another label and calls restartAutoSync
RestartAutoSync ==
    /\ pluginPc = "loaded"
    /\ \E label \in IntervalLabels :
          /\ restartAutoSync(Window, label).timerCount <= MaxTimers
          /\ settings' = [settings EXCEPT !.syncIntervalLabel = label]
          /\ SetWindow(restartAutoSync(Window, label))
    /\ UNCHANGED <<pluginPc, isSyncing, calls, managersCreated, syncCalls,
                   renderVars, wrapVars, rrVars, syncVars>>

\* onunload, lines 72-74
Onunload ==
    /\ pluginPc = "loaded"
    /\ SetWindow(stopAutoSync(Window))
    /\ pluginPc' = "unloaded"
    /\ UNCHANGED <<settings, isSyncing, calls, managersCreated, syncCalls,
                   renderVars, wrapVars, rrVars, syncVars>>

\* refreshAuthStatus, lines 152-176: settings.isAuthenticated follows the
\* client and the outcome of the token refresh
RefreshAuthStatus ==
    /\ pluginPc = "loaded"
    /\ \E auth \in BOOLEAN : settings' = [settings EXCEPT !.isAuthenticated = auth]
    /\ UNCHANGED <<pluginPc, isSyncing, syncIntervalId, timers, timerCount, calls,
                   managersCreated, syncCalls, renderVars, wrapVars, rrVars, syncVars>>

\* mutant: runSync without the check of isSyncing
RunSyncEntry_NoBusyCheck(vaultOk) ==
    /\ Len(calls) < MaxCalls
    /\ IF ~settings.isAuthenticated
       THEN /\ calls' = Append(calls, [pc |-> "unauth"])
            /\ UNCHANGED <<isSyncing, managersCreated>>
       ELSE IF ~vaultOk
       THEN /\ isSyncing' = FALSE
            /\ calls' = Append(calls, [pc |-> "returned"])
            /\ UNCHANGED managersCreated
       ELSE /\ isSyncing' = TRUE
            /\ managersCreated' = managersCreated + 1
            /\ calls' = Append(calls, [pc |-> "create"])
    /\ UNCHANGED <<pluginPc, settings, syncIntervalId, timers, timerCount, syncCalls,
                   renderVars, wrapVars, rrVars, syncVars>>

\* runSync from its call to its first await, lines 178-200.  getVaultPath
\* throws when the vault is not on a file system: catch and finally run at
\* once.  Otherwise SyncManager.create is called and awaited.
RunSyncEntry(vaultOk) ==
    /\ Len(calls) < MaxCalls
    /\ IF isSyncing
       THEN /\ calls' = Append(calls, [pc |-> "busy"])
            /\ UNCHANGED <<isSyncing, managersCreated>>
       ELSE IF ~settings.isAuthenticated
       THEN /\ calls' = Append(calls, [pc |-> "unauth"])
            /\ UNCHANGED <<isSyncing, managersCreated>>
       ELSE IF ~vaultOk
       THEN /\ isSyncing' = FALSE
            /\ calls' = Append(calls, [pc |-> "returned"])
            /\ UNCHANGED managersCreated
       ELSE /\ isSyncing' = TRUE
            /\ managersCreated' = managersCreated + 1
            /\ calls' = Append(calls, [pc |-> "create"])
    /\ UNCHANGED <<pluginPc, settings, syncIntervalId, timers, timerCount, syncCalls,
                   renderVars, wrapVars, rrVars, syncVars>>

\* the ribbon icon, "sync-now" or "force-sync", lines 28-47
RunSync ==
    /\ pluginPc = "loaded"
    /\ \E vaultOk \in BOOLEAN : RunSyncEntry(vaultOk)

\* the callback of an interval that is set, lines 257-259
TimerFires ==
    /\ timers # {}
    /\ \E vaultOk \in BOOLEAN : RunSyncEntry(vaultOk)

\* SyncManager.create resolves (SyncState.load catches every failure);
\* manager.sync is called and awaited, lines 196-205
CreateSettles(c) ==
    /\ calls[c].pc = "create"
    /\ syncCalls' = syncCalls + 1
    /\ calls' = [calls EXCEPT ![c].pc = "sync"]
    /\ UNCHANGED <<pluginPc, settings, isSyncing, syncIntervalId, timers, timerCount,
                   managersCreated, renderVars, wrapVars, rrVars, syncVars>>

\* manager.sync settles, lines 202-233: with results (lastSyncTime is set and
\* saveSettings awaited), with the error 'Not authenticated...' (the flag is
\* cleared and saveSettings awaited inside catch), or with another error
SyncSettles(c, outcome) ==
    /\ calls[c].pc = "sync"
    /\ CASE outcome = "results" ->
              /\ settings' = [settings EXCEPT !.lastSyncTime = Some("now")]
              /\ calls' = [calls EXCEPT ![c].pc = "save"]
              /\ UNCHANGED isSyncing
         [] outcome = "notAuthenticated" ->
              /\ settings' = [settings EXCEPT !.isAuthenticated = FALSE]
              /\ calls' = [calls EXCEPT ![c].pc = "saveInCatch"]
              /\ UNCHANGED isSyncing
         [] OTHER ->
              /\ isSyncing' = FALSE
              /\ calls' = [calls EXCEPT ![c].pc = "returned"]
              /\ UNCHANGED settings
    /\ UNCHANGED <<pluginPc, syncIntervalId, timers, timerCount, managersCreated,
                   syncCalls, renderVars, wrapVars, rrVars, syncVars>>

\* mutant: isSyncing is reset at the end of try only, not in finally
SaveSettles_NoFinally(c, saved) ==
    /\ calls[c].pc \in {"save", "saveInCatch"}
    /\ isSyncing' = IF calls[c].pc = "save" /\ saved THEN FALSE ELSE isSyncing
    /\ calls' = [calls EXCEPT ![c].pc =
                    IF calls[c].pc = "saveInCatch" /\ ~saved THEN "rejected"
                    ELSE "returned"]
    /\ UNCHANGED <<pluginPc, settings, syncIntervalId, timers, timerCount,
                   managersCreated, syncCalls, renderVars, wrapVars, rrVars, syncVars>>

\* saveSettings settles, lines 208-233.  A failure inside try goes to catch
\* (its message is no authentication error); a failure inside catch leaves
\* runSync rejected; finally runs in every case.
SaveSettles(c, saved) ==
    /\ calls[c].pc \in {"save", "saveInCatch"}
    /\ isSyncing' = FALSE
    /\ calls' = [calls EXCEPT ![c].pc =
                    IF calls[c].pc = "saveInCatch" /\ ~saved THEN "rejected"
                    ELSE "returned"]
    /\ UNCHANGED <<pluginPc, settings, syncIntervalId, timers, timerCount,
                   managersCreated, syncCalls, renderVars, wrapVars, rrVars, syncVars>>

SyncOutcomes == {"results", "notAuthenticated", "error"}

NextPlugin ==
    \/ Onload
    \/ RestartAutoSync
    \/ Onunload
    \/ RefreshAuthStatus
    \/ RunSync
    \/ TimerFires
    \/ \E c \in 1..Len(calls) : CreateSettles(c)
    \/ \E c \in 1..Len(calls), outcome \in SyncOutcomes : SyncSettles(c, outcome)
    \/ \E c \in 1..Len(calls), saved \in BOOLEAN : SaveSettles(c, saved)

SpecPlugin == InitPlugin /\ [][NextPlugin]_vars

\* every awaited promise settles
SettleFairness ==
    /\ WF_vars(\E c \in 1..Len(calls) : CreateSettles(c))
    /\ WF_vars(\E c \in 1..Len(calls), outcome \in SyncOutcomes : SyncSettles(c, outcome))
    /\ WF_vars(\E c \in 1..Len(calls), saved \in BOOLEAN : SaveSettles(c, saved))

SpecPluginLive == SpecPlugin /\ SettleFairness

(***************************************************************************)
(* SpecSync: SyncManager (sync-manager.ts) over a cloud account and a      *)
(* vault.  One SyncManager runs at a time (runSync); the for loop of sync  *)
(* is one action per iteration, syncDocument included, whose input is the  *)
(* await that rejects, if any.                                             *)
(***************************************************************************)
MaxVersion == 2

MaxSyncs == 2

\* what client.listDocuments returns, with folderPaths.get(doc.id) of
\* buildFolderTree as the field folderPath (Null: no entry): a folder, a
\* document inside it, a document without an entry whose name holds a
\* character that Windows forbids, and a trashed document
Listing ==
    << [id |-> "f1", name |-> <<"W">>, type |-> "CollectionType", isTrashed |-> FALSE,
        version |-> 1, folderPath |-> Some(<<"W">>)],
       [id |-> "d1", name |-> <<"a">>, type |-> "DocumentType", isTrashed |-> FALSE,
        version |-> cloudVersion["d1"], folderPath |-> Some(<<"W", "/", "a">>)],
       [id |-> "d2", name |-> <<"b", "?">>, type |-> "DocumentType", isTrashed |-> FALSE,
        version |-> cloudVersion["d2"], folderPath |-> Null],
       [id |-> "d3", name |-> <<"c">>, type |-> "DocumentType", isTrashed |-> TRUE,
        version |-> cloudVersion["d3"], folderPath |-> Some(<<"W", "/", "c">>)] >>

\* cloud-client.ts
isDocument(doc) == doc.type = "DocumentType"

\* String.prototype.startsWith
startsWith(s, prefix) ==
    Len(prefix) <= Len(s) /\ SubSeq(s, 1, Len(prefix)) = prefix

\* lines 132-142; a folderFilter of "" or undefined is falsy
Filtered(documents, o) ==
    LET docsToSync == SelectSeq(documents, LAMBDA doc : isDocument(doc) /\ ~doc.isTrashed)
        keeps(doc) == startsWith(IF IsNull(doc.folderPath) THEN <<>> ELSE Get(doc.folderPath),
                                 Get(o.folderFilter))
    IN  IF ~IsNull(o.folderFilter) /\ Get(o.folderFilter) # <<>>
        THEN SelectSeq(docsToSync, keeps)
        ELSE docsToSync

\* line 147: folderPaths.get(doc.id) ?? doc.name
DocPath(doc) == IF IsNull(doc.folderPath) THEN doc.name ELSE Get(doc.folderPath)

\* line 190: docPath.replace(/[<>:"|?*]/g, "_")
SafePath(docPath) ==
    [k \in DOMAIN docPath |->
        IF docPath[k] \in {"<", ">", ":", "QUOTE", "|", "?", "*"} THEN "_" ELSE docPath[k]]

\* mutant: a document synced at the cloud's version is due again
needsSync_AtSameVersion(st, doc) ==
    LET synced == st.syncedDocs[doc.id] IN
    IF IsNull(synced) THEN TRUE ELSE Get(synced).version <= doc.version

\* SyncState.needsSync, lines 57-61
needsSync(st, doc) ==
    LET synced == st.syncedDocs[doc.id] IN
    IF IsNull(synced) THEN TRUE ELSE Get(synced).version < doc.version

\* the text SyncState.save writes, lines 45-55, as the object it encodes
ToFile(st) == [valid |-> TRUE, last_sync |-> st.lastSync, synced_docs |-> st.syncedDocs]

\* SyncState.load, lines 31-43: no file, and a file that JSON.parse
\* rejects, give the empty state
LoadState(file) ==
    IF IsNull(file) THEN EmptySyncState
    ELSE IF ~Get(file).valid THEN EmptySyncState
    ELSE [lastSync |-> Get(file).last_sync, syncedDocs |-> Get(file).synced_docs]

\* a state file that is no JSON
GarbageFile == [valid |-> FALSE, last_sync |-> Null, synced_docs |-> [d \in DocIds |-> Null]]

SyncOptions ==
    [folderFilter : {Null, Some(<<"W">>)}, force : BOOLEAN, dryRun : BOOLEAN]

InitSync ==
    /\ cloudVersion \in [DocIds -> {1}]
    /\ stateFile \in {Null, Some(GarbageFile)}
    /\ state = EmptySyncState
    /\ managerPc = "none"
    /\ opts = DefaultOpts
    /\ filtered = <<>>
    /\ syncI = 1
    /\ results = NoResults
    /\ downloads = {}
    /\ fileOpsCalls = NoFileOps
    /\ syncCount = 0
    /\ syncedOk = [d \in DocIds |-> 0]
    /\ StrokeIdle
    /\ PageIdle
    /\ ConvIdle
    /\ WrapIdle
    /\ ReRenderIdle
    /\ PluginIdle

\* the document outside the folder is edited on the tablet
CloudEdit ==
    /\ \E d \in {"d2"} :
          /\ cloudVersion[d] < MaxVersion
          /\ cloudVersion' = [cloudVersion EXCEPT ![d] = @ + 1]
    /\ UNCHANGED <<stateFile, state, managerPc, opts, filtered, syncI, results,
                   downloads, fileOpsCalls, syncCount, syncedOk, renderVars, wrapVars,
                   rrVars, pluginVars>>

\* SyncManager.create, lines 104-113
CreateManager ==
    /\ managerPc \in {"none", "returned", "threw"}
    /\ state' = LoadState(stateFile)
    /\ managerPc' = "ready"
    /\ UNCHANGED <<cloudVersion, stateFile, opts, filtered, syncI, results, downloads,
                   fileOpsCalls, syncCount, syncedOk, renderVars, wrapVars, rrVars,
                   pluginVars>>

\* sync from its call to the for loop, lines 115-144
SyncStart ==
    /\ managerPc \in {"ready", "returned", "threw"}
    /\ syncCount < MaxSyncs
    /\ syncCount' = syncCount + 1
    /\ results' = NoResults
    /\ downloads' = {}
    /\ fileOpsCalls' = NoFileOps
    /\ syncI' = 1
    /\ \E o \in SyncOptions, authenticated \in BOOLEAN, listed \in BOOLEAN :
          /\ opts' = o
          /\ IF authenticated /\ listed
             THEN filtered' = Filtered(Listing, o) /\ managerPc' = "loop"
             ELSE filtered' = <<>> /\ managerPc' = "threw"
    /\ UNCHANGED <<cloudVersion, stateFile, state, syncedOk, renderVars, wrapVars,
                   rrVars, pluginVars>>

\* the awaits of syncDocument in order, and "ok" when none rejects
SyncDocumentOutcomes == {"ok", "download", "convert", "mkdir", "write", "save"}

\* mutant: the record is written before the download
SyncDocumentEffect_RecordFirst(doc, outcome) ==
    LET info == [version |-> doc.version, path |-> SafePath(DocPath(doc)),
                 hash |-> <<doc.id, doc.version>>, syncedAt |-> syncCount]
        st == [state EXCEPT !.syncedDocs[doc.id] = Some(info)]
    IN  /\ downloads' = downloads \cup {doc.id}
        /\ fileOpsCalls' =
              [mkdir |-> fileOpsCalls.mkdir
                         + (IF outcome \in {"download", "convert"} THEN 0 ELSE 1),
               writeBinaryFile |-> fileOpsCalls.writeBinaryFile
                         + (IF outcome \in {"download", "convert", "mkdir"} THEN 0 ELSE 1),
               writeFile |-> fileOpsCalls.writeFile + 1]
        /\ state' = st
        /\ stateFile' = IF outcome = "ok" THEN Some(ToFile(st)) ELSE stateFile
        /\ syncedOk' = IF outcome = "ok" THEN [syncedOk EXCEPT ![doc.id] = doc.version]
                       ELSE syncedOk

\* syncDocument, lines 177-215, up to the rejecting await
SyncDocumentEffect(doc, outcome) ==
    LET recorded == outcome \in {"ok", "save"}
        info == [version |-> doc.version, path |-> SafePath(DocPath(doc)),
                 hash |-> <<doc.id, doc.version>>, syncedAt |-> syncCount]
        st == IF recorded
              THEN [state EXCEPT !.syncedDocs[doc.id] = Some(info)]
              ELSE state
    IN  /\ downloads' = downloads \cup {doc.id}
        /\ fileOpsCalls' =
              [mkdir |-> fileOpsCalls.mkdir
                         + (IF outcome \in {"download", "convert"} THEN 0 ELSE 1),
               writeBinaryFile |-> fileOpsCalls.writeBinaryFile
                         + (IF outcome \in {"download", "convert", "mkdir"} THEN 0 ELSE 1),
               writeFile |-> fileOpsCalls.writeFile + (IF recorded THEN 1 ELSE 0)]
        /\ state' = st
        /\ stateFile' = IF outcome = "ok" THEN Some(ToFile(st)) ELSE stateFile
        /\ syncedOk' = IF outcome = "ok" THEN [syncedOk EXCEPT ![doc.id] = doc.version]
                       ELSE syncedOk

\* mutant: the first document that fails ends the loop
SyncIteration_StopAtError(outcome) ==
    /\ managerPc = "loop"
    /\ syncI <= Len(filtered)
    /\ LET doc == filtered[syncI]
           docPath == DocPath(doc)
       IN  IF ~opts.force /\ ~needsSync(state, doc)
           THEN /\ results' = [results EXCEPT !.skipped = Append(@, docPath)]
                /\ syncI' = syncI + 1
                /\ UNCHANGED <<state, stateFile, downloads, fileOpsCalls, syncedOk>>
           ELSE IF opts.dryRun
           THEN /\ results' = [results EXCEPT !.synced = Append(@, docPath)]
                /\ syncI' = syncI + 1
                /\ UNCHANGED <<state, stateFile, downloads, fileOpsCalls, syncedOk>>
           ELSE /\ SyncDocumentEffect(doc, outcome)
                /\ syncI' = IF outcome = "ok" THEN syncI + 1 ELSE Len(filtered) + 1
                /\ results' =
                      IF outcome = "ok"
                      THEN [results EXCEPT !.synced = Append(@, docPath)]
                      ELSE [results EXCEPT !.errors =
                               Append(@, [path |-> docPath, message |-> outcome])]
    /\ UNCHANGED <<cloudVersion, managerPc, opts, filtered, syncCount, renderVars,
                   wrapVars, rrVars, pluginVars>>

\* one iteration of the for loop of sync, lines 146-169
SyncIteration(outcome) ==
    /\ managerPc = "loop"
    /\ syncI <= Len(filtered)
    /\ LET doc == filtered[syncI]
           docPath == DocPath(doc)
       IN  IF ~opts.force /\ ~needsSync(state, doc)
           THEN /\ results' = [results EXCEPT !.skipped = Append(@, docPath)]
                /\ UNCHANGED <<state, stateFile, downloads, fileOpsCalls, syncedOk>>
           ELSE IF opts.dryRun
           THEN /\ results' = [results EXCEPT !.synced = Append(@, docPath)]
                /\ UNCHANGED <<state, stateFile, downloads, fileOpsCalls, syncedOk>>
           ELSE /\ SyncDocumentEffect(doc, outcome)
                /\ results' =
                      IF outcome = "ok"
                      THEN [results EXCEPT !.synced = Append(@, docPath)]
                      ELSE [results EXCEPT !.errors =
                               Append(@, [path |-> docPath, message |-> outcome])]
    /\ syncI' = syncI + 1
    /\ UNCHANGED <<cloudVersion, managerPc, opts, filtered, syncCount, renderVars,
                   wrapVars, rrVars, pluginVars>>

\* the end of sync, lines 171-174: lastSync is set and the state saved;
\* sync rejects when the write fails
SyncFinish(saved) ==
    /\ managerPc = "loop"
    /\ syncI > Len(filtered)
    /\ state' = [state EXCEPT !.lastSync = Some(syncCount)]
    /\ fileOpsCalls' = [fileOpsCalls EXCEPT !.writeFile = @ + 1]
    /\ stateFile' = IF saved THEN Some(ToFile(state')) ELSE stateFile
    /\ managerPc' = IF saved THEN "returned" ELSE "threw"
    /\ UNCHANGED <<cloudVersion, opts, filtered, syncI, results, downloads, syncCount,
                   syncedOk, renderVars, wrapVars, rrVars, pluginVars>>

NextSync ==
    \/ CloudEdit
    \/ CreateManager
    \/ SyncStart
    \/ \E outcome \in SyncDocumentOutcomes : SyncIteration(outcome)
    \/ \E saved \in BOOLEAN : SyncFinish(saved)

SpecSync == InitSync /\ [][NextSync]_vars

(***************************************************************************)
(* Properties of renderStroke (SpecStroke).                                *)
(***************************************************************************)
IsDrawing(op) == op.kind \in {"line", "path"}

OpWidth(op) == IF op.kind = "line" THEN op.thickness ELSE op.borderWidth

OpColor(op) == IF op.kind = "line" THEN op.color ELSE op.borderColor

OpOpacity(op) == IF op.kind = "line" THEN op.opacity ELSE op.borderOpacity

DrawingOps(ops) == SelectSeq(ops, IsDrawing)

\* C5: renderStroke emits no drawing operation (indeed no operator at all)
\* for a stroke whose pen type is ERASER or ERASER_AREA or that has fewer
\* than 2 points, whatever its colour, override and point widths.
C5_EraserOrShortStrokeEmitsNothing ==
    (strokePc = "returned"
     /\ (stroke.penType \in {"ERASER", "ERASER_AREA"} \/ Len(stroke.points) < 2))
    => strokeOps = <<>>

C5_Witness ==
    /\ strokePc = "returned"
    /\ stroke.penType = "ERASER_AREA"
    /\ Len(stroke.points) >= 2
    /\ ~IsNull(stroke.colorArgb)
    /\ \E i \in DOMAIN stroke.points : stroke.points[i].width = 10000
    /\ strokeOps = <<>>

\* The clamp ranges as the claim lists them, <<min, max>> in 1/10 pt.
ClaimedWidthRange(penType) ==
    CASE penType \in {"BALLPOINT_1", "BALLPOINT_2"} -> <<3, 30>>
      [] penType \in {"FINELINER_1", "FINELINER_2"} -> <<3, 40>>
      [] penType \in {"PENCIL_1", "PENCIL_2"} -> <<2, 40>>
      [] penType \in {"MECHANICAL_PENCIL_1", "MECHANICAL_PENCIL_2"} -> <<2, 30>>
      [] penType \in {"MARKER_1", "MARKER_2"} -> <<10, 150>>
      [] penType = "CALLIGRAPHY" -> <<2, 100>>
      [] penType = "PAINTBRUSH_2" -> <<3, 80>>
      [] penType = "BRUSH" -> <<2, 100>>
      [] penType \in {"HIGHLIGHTER_1", "HIGHLIGHTER_2", "SHADER"} -> <<10, 150>>
      [] OTHER -> <<2, 200>>

\* C6: for every pen type and every raw point width, the width of every
\* emitted drawing operation lies within that pen's clamp range.
C6_WidthWithinClampRange ==
    strokePc = "returned" =>
        \A i \in DOMAIN strokeOps :
            IsDrawing(strokeOps[i]) =>
                LET range == ClaimedWidthRange(stroke.penType)
                    w == OpWidth(strokeOps[i])
                IN  /\ range[1] * WDEN <= 10 * w
                    /\ 10 * w <= range[2] * WDEN

C6_Witness ==
    /\ strokePc = "returned"
    /\ stroke.penType = "MARKER_1"
    /\ Len(stroke.points) = 3
    /\ stroke.points[2].width = 0
    /\ stroke.points[3].width = 10000
    /\ Len(strokeOps) = 2
    /\ strokeOps[1].thickness = WDEN
    /\ strokeOps[2].thickness = 15 * WDEN

\* The channels of a packed colour, read by masking before shifting.
ClaimedRgb(argb) ==
    [r |-> ((argb % (2 ^ 24)) \div (2 ^ 16)) * 10000,
     g |-> ((argb % (2 ^ 16)) \div (2 ^ 8)) * 10000,
     b |-> (argb % (2 ^ 8)) * 10000]

ClaimedAlpha(argb) == ((argb \div (2 ^ 24)) + 256) % 256

\* C8: the colour of every operation emitted for a stroke is the RGB of the
\* packed override whenever an override is present; with no override it is
\* the palette entry of the colour index, black for an index outside 0..13.
C8_OverrideWinsOverPalette ==
    strokePc = "returned" =>
        \A i \in DOMAIN strokeOps :
            IsDrawing(strokeOps[i]) =>
                OpColor(strokeOps[i]) =
                    IF stroke.colorArgb # Null
                    THEN ClaimedRgb(stroke.colorArgb[1])
                    ELSE IF stroke.color \in 0..13
                    THEN [r |-> COLOR_MAP[stroke.color][1] * 255,
                          g |-> COLOR_MAP[stroke.color][2] * 255,
                          b |-> COLOR_MAP[stroke.color][3] * 255]
                    ELSE [r |-> 0, g |-> 0, b |-> 0]

C8_Witness ==
    /\ strokePc = "returned"
    /\ stroke.penType = "FINELINER_1"
    /\ stroke.color = 6
    /\ stroke.colorArgb = Some(PackArgb(128, 0, 255, 64))
    /\ strokeOps # <<>>
    /\ strokeOps[1].color = [r |-> 0, g |-> 255 * 10000, b |-> 64 * 10000]

\* C9: a SHADER stroke with an override takes its opacity from the alpha
\* channel of the override (alpha/255); every other stroke takes the pen
\* table's default opacity, also when an override with another alpha is
\* present.
C9_OpacityFromAlphaOnlyForShader ==
    strokePc = "returned" =>
        \A i \in DOMAIN strokeOps :
            IsDrawing(strokeOps[i]) =>
                OpOpacity(strokeOps[i]) =
                    IF stroke.penType = "SHADER" /\ stroke.colorArgb # Null
                    THEN ClaimedAlpha(stroke.colorArgb[1]) * 100
                    ELSE IF stroke.penType \in DOMAIN PEN_STYLES
                    THEN PEN_STYLES[stroke.penType].opacity * 255
                    ELSE ODEN

C9_Witness ==
    /\ strokePc = "returned"
    /\ stroke.penType = "SHADER"
    /\ stroke.colorArgb = Some(PackArgb(128, 0, 255, 64))
    /\ \E i \in DOMAIN strokeOps :
        /\ strokeOps[i].kind = "path"
        /\ strokeOps[i].borderOpacity = 128 * 100
        /\ strokeOps[i].borderOpacity # PEN_STYLES["SHADER"].opacity * 255

\* x is v/den rounded to the nearest integer
IsNearest(x, v, den) == 2 * x * den - 2 * v \in (-den)..den

\* C10: a highlighter-class stroke with n >= 2 points is emitted as exactly
\* one path operation that visits all n points in stroke order (one move,
\* then n-1 line-to), never as separately composited segments.
C10_HighlighterIsOnePath ==
    (strokePc = "returned"
     /\ stroke.penType \in {"HIGHLIGHTER_1", "HIGHLIGHTER_2", "SHADER"}
     /\ Len(stroke.points) >= 2)
    => LET drawn == DrawingOps(strokeOps)
           n == Len(stroke.points)
       IN  /\ Len(drawn) = 1
           /\ drawn[1].kind = "path"
           /\ Len(drawn[1].d) = n
           /\ \A i \in 1..n :
                /\ drawn[1].d[i].cmd = (IF i = 1 THEN "M" ELSE "L")
                /\ IsNearest(drawn[1].d[i].x,
                             100 * (stroke.points[i].x + 810) * 514, 1620)
                \* the path is given in SVG space (y down) and flipped about
                \* the page height when drawn
                /\ IsNearest(drawn[1].d[i].y,
                             100 * stroke.points[i].y * 514, 1620)
           /\ drawn[1].y = strokeGeo.pageHeightPt

C10_Witness ==
    /\ strokePc = "returned"
    /\ stroke.penType = "HIGHLIGHTER_2"
    /\ Len(stroke.points) = 3
    /\ Len(DrawingOps(strokeOps)) = 1
    /\ Len(strokeOps[2].d) = 3

(***************************************************************************)
(* Properties of renderPageToPdf (SpecPage).                               *)
(***************************************************************************)
\* 0: operator of a highlighter-class stroke, 1: of another stroke,
\* 2: of a text block
PaintClass(op) ==
    IF op.layer = 0 THEN 2
    ELSE IF pageIn.layers[op.layer].strokes[op.index].penType
                \in {"HIGHLIGHTER_1", "HIGHLIGHTER_2", "SHADER"}
    THEN 0
    ELSE 1

\* a is painted no later than b: class first, then layer, then index
PaintedInOrder(a, b) ==
    \/ PaintClass(a) < PaintClass(b)
    \/ /\ PaintClass(a) = PaintClass(b)
       /\ \/ a.layer < b.layer
          \/ a.layer = b.layer /\ a.index <= b.index

\* C7: in renderPageToPdf every operator of a highlighter-class stroke is
\* emitted before every operator of a non-highlighter stroke of the page,
\* across all layers; within each class the operators follow layer order
\* and then stroke order; all stroke operators precede all text operators.
\* When the page is saved, every stroke that draws has its operators in it.
C7_HighlightersThenInkThenText ==
    /\ \A p, q \in DOMAIN pageOps :
        p < q => PaintedInOrder(pageOps[p], pageOps[q])
    /\ pagePc = "done" =>
        \A li \in DOMAIN pageIn.layers :
            \A si \in DOMAIN pageIn.layers[li].strokes :
                pageIn.layers[li].strokes[si].penType \notin {"ERASER", "ERASER_AREA"}
                => \E p \in DOMAIN pageOps :
                        /\ pageOps[p].layer = li
                        /\ pageOps[p].index = si
                        /\ IsDrawing(pageOps[p])

\* ink in layer 1, a highlighter in layer 2, and text: the highlighter's
\* path is painted first although its layer comes second
C7_Witness ==
    /\ pagePc = "done"
    /\ Len(pageIn.layers) = 2
    /\ pageIn.layers[1].strokes = <<InkStroke("FINELINER_1"), InkStroke("HIGHLIGHTER_1")>>
    /\ pageIn.layers[2].strokes = <<InkStroke("HIGHLIGHTER_1"), InkStroke("FINELINER_1")>>
    /\ pageIn.textBlocks # <<>>
    /\ \E p, q, r \in DOMAIN pageOps :
        /\ p < q /\ q < r
        /\ pageOps[p].kind = "path" /\ pageOps[p].layer = 2
        /\ pageOps[q].kind = "line" /\ pageOps[q].layer = 1
        /\ pageOps[r].kind = "text"

(***************************************************************************)
(* Properties of convertToPdf (Spec).                                      *)
(***************************************************************************)
NumPages == Len(content.pages)

Finished == convPc \in {"done", "failed"}

OutputPages == result.bytes[1].pages

Unreadable(i) ==
    \/ content.pages[i].rmData = Null
    \/ ~content.pages[i].rmData[1].decodes

\* C2: a page whose raw buffer is absent or whose decode throws is replaced
\* by the canonical empty page (no layers, no text blocks, width 1404,
\* height 1872, the input page id); the failure is not propagated and the
\* remaining pages are still processed.
C2_UnreadablePageBecomesEmptyPage ==
    /\ \A i \in 1..NumPages :
        convI > i =>
            /\ Len(parsedPages) >= i
            /\ parsedPages[i].pageId = content.pages[i].pageId
            /\ IF Unreadable(i)
               THEN /\ parsedPages[i].layers = <<>>
                    /\ parsedPages[i].textBlocks = <<>>
                    /\ parsedPages[i].width = 1404
                    /\ parsedPages[i].height = 1872 * HDEN
               ELSE /\ parsedPages[i].layers = content.pages[i].rmData[1].page.layers
                    /\ parsedPages[i].textBlocks
                            = content.pages[i].rmData[1].page.textBlocks
    /\ convPc \in {"render", "done"} => Len(parsedPages) = NumPages
    /\ NumPages >= 1 => result.status # "rejected"
    /\ (convPc = "done" /\ NumPages >= 1) => Len(OutputPages) = NumPages

C2_Witness ==
    /\ convPc = "done"
    /\ NumPages = 2
    /\ content.pages[1].rmData # Null
    /\ ~content.pages[1].rmData[1].decodes
    /\ content.pages[2].rmData = Some([decodes |-> TRUE, page |-> DecodedLong])
    /\ parsedPages[1] = [pageId |-> "p1", layers |-> <<>>, textSpans |-> <<>>,
                         textBlocks |-> <<>>, width |-> 1404, height |-> 1872 * HDEN]
    /\ parsedPages[2].layers # <<>>
    /\ result.status = "resolved"

\* the annotation page an output page shows: the page itself, or the page
\* drawn over the background
AnnotationOf(pg) ==
    IF "of" \in DOMAIN pg THEN pg ELSE pg.ops[Len(pg.ops)].page

\* the number of drawing operations the strokes of a decoded page ask for:
\* one per highlighter-class stroke, one per segment of another stroke,
\* none for an eraser
RECURSIVE SumSeq(_)
SumSeq(ns) == IF ns = <<>> THEN 0 ELSE Head(ns) + SumSeq(Tail(ns))

ClaimedDrawCount(pageInfo) ==
    IF pageInfo.rmData = Null \/ ~pageInfo.rmData[1].decodes THEN 0
    ELSE LET pg == pageInfo.rmData[1].page IN
         SumSeq([li \in DOMAIN pg.layers |->
            SumSeq([si \in DOMAIN pg.layers[li].strokes |->
                LET st == pg.layers[li].strokes[si] IN
                IF st.penType \in {"ERASER", "ERASER_AREA"} \/ Len(st.points) < 2
                THEN 0
                ELSE IF st.penType \in {"HIGHLIGHTER_1", "HIGHLIGHTER_2", "SHADER"}
                THEN 1
                ELSE Len(st.points) - 1])])

\* C3: for a document with N >= 1 input pages the output has exactly N
\* pages and output page i is rendered from input page i, with or without
\* backgrounds, on the single-page and on the multi-page path.
C3_OnePagePerInputPageInOrder ==
    (convPc = "done" /\ NumPages >= 1) =>
        /\ result.status = "resolved"
        /\ Len(OutputPages) = NumPages
        /\ \A i \in 1..NumPages :
            LET annot == AnnotationOf(OutputPages[i]) IN
            /\ annot.of = content.pages[i].pageId
            /\ Len(DrawingOps(annot.ops)) = ClaimedDrawCount(content.pages[i])

C3_Witness ==
    /\ convPc = "done"
    /\ NumPages = 2
    /\ content.pages[1].rmData = Some([decodes |-> TRUE, page |-> DecodedLong])
    /\ content.pages[2].rmData = Some([decodes |-> TRUE, page |-> DecodedFineliner])
    /\ Len(OutputPages) = 2
    /\ "of" \notin DOMAIN OutputPages[1]
    /\ "of" \in DOMAIN OutputPages[2]
    /\ Len(DrawingOps(AnnotationOf(OutputPages[1]).ops)) = 3
    /\ Len(DrawingOps(OutputPages[2].ops)) = 1

\* page i has a background that can be used: the original PDF is present
\* and loads, has a page i, and that page can be copied and merged
BackgroundUsable(i) ==
    /\ content.originalPdf # Null
    /\ content.originalPdf[1].loads
    /\ i <= Len(content.originalPdf[1].pages)
    /\ content.originalPdf[1].pages[i].copies
    /\ content.originalPdf[1].pages[i].embeds

RawWidthsOf(s) == [i \in DOMAIN s.points |-> s.points[i].width]

CountBelow(ws, m) == Cardinality({i \in DOMAIN ws : ws[i] < m})

CountUpTo(ws, m) == Cardinality({i \in DOMAIN ws : ws[i] <= m})

\* m is the element of rank floor(n/2) (from 0) of ws in ascending order:
\* the middle element for odd n, the upper of the two middle ones for even n
IsUpperMedian(m, ws) ==
    /\ \E i \in DOMAIN ws : ws[i] = m
    /\ CountBelow(ws, m) <= Len(ws) \div 2
    /\ CountUpTo(ws, m) > Len(ws) \div 2

\* m is the element of rank floor((n-1)/2): the lower of the two middle ones
IsLowerMedian(m, ws) ==
    /\ \E i \in DOMAIN ws : ws[i] = m
    /\ CountBelow(ws, m) <= (Len(ws) - 1) \div 2
    /\ CountUpTo(ws, m) > (Len(ws) - 1) \div 2

\* raw width w, scaled by SCALE and WIDTH_FACTOR and clamped to [1.0, 15.0],
\* in 1/WDEN pt; twiceW is 2 w, so that the mean of two widths is exact
ClaimedPathWidth(twiceW) ==
    LET scaled == twiceW * ((SCALE_NUM * WIDTH_FACTOR_NUM) \div 2) IN
    IF scaled < WDEN THEN WDEN
    ELSE IF scaled > 15 * WDEN THEN 15 * WDEN
    ELSE scaled

IsHighlighterCall ==
    /\ strokePc = "returned"
    /\ stroke.penType \in {"HIGHLIGHTER_1", "HIGHLIGHTER_2", "SHADER"}
    /\ Len(stroke.points) >= 2

Decoded(i) == content.pages[i].rmData[1].page

\* input page i has been through the loop of convertToPdf and was decoded
Converted(i) == convI > i /\ ~Unreadable(i)

Scrolled(i) == content.pages[i].verticalScroll # Null

\* the largest y over all points of all strokes of a page, never below 0,
\* in 1/59 device unit
ClaimedMaxY59(pg) ==
    LET ys == {0} \cup
              UNION {UNION {{st.points[k].y * 59 + st.points[k].ySub :
                                k \in DOMAIN st.points} :
                            st \in {ly.strokes[si] : si \in DOMAIN ly.strokes}} :
                     ly \in {pg.layers[li] : li \in DOMAIN pg.layers}}
    IN  CHOOSE m \in ys : \A n \in ys : n <= m

\* (m / 59) * 0.885 > 1872 * 1.05, both sides times 59 * 1000
ScaledAboveThreshold(m) == m * 885 > 1872 * 1050 * 59

\* (m / 59) * 0.885 = 1872 * 1.05
ScaledAtThreshold(m) == m * 885 = 1872 * 1050 * 59

\* height h (1/HDEN device units) is (m / 59) * 0.885
IsScaledHeight(h, m) == h * 59 * 5 = m * 885

\* C12: for a page with the vertical-scroll flag set, the page height is
\* replaced by (max stroke y) x 0.885 exactly when that value is strictly
\* greater than 1.05 x 1872; a value equal to the threshold, or below it,
\* leaves the height at 1872.
C12_ExtendsStrictlyAboveThreshold ==
    \A i \in 1..NumPages :
        (Converted(i) /\ Scrolled(i)) =>
            LET m == ClaimedMaxY59(Decoded(i)) IN
            IF ScaledAboveThreshold(m)
            THEN IsScaledHeight(parsedPages[i].height, m)
            ELSE parsedPages[i].height = 1872 * HDEN

\* the scaled content height of a scrolled page equals the threshold and
\* the page keeps its height
C12_Witness ==
    /\ convPc = "done"
    /\ Converted(1)
    /\ Scrolled(1)
    /\ ScaledAtThreshold(ClaimedMaxY59(Decoded(1)))
    /\ parsedPages[1].height = 1872 * HDEN
    /\ AnnotationOf(OutputPages[1]).height = 1872 * 514 * 3 * HDEN

\* the smallest step above the threshold extends the page
C12_WitnessAbove ==
    /\ convPc = "done"
    /\ Converted(1)
    /\ Scrolled(1)
    /\ ClaimedMaxY59(Decoded(1)) = 1872 * 70 + 1
    /\ parsedPages[1].height = (1872 * 70 + 1) * 3
    /\ parsedPages[1].height > 1872 * HDEN

\* C13 as stated: a single-page document whose page has the
\* vertical-scroll flag set and maximum stroke y = 2200 gets its height
\* extended (to 2200 x 0.885 = 1947); a page without the flag, or with
\* maximum stroke y = 1900, keeps 1872.
C13_Scroll2200Extends ==
    (NumPages = 1 /\ Converted(1)) =>
        LET m == ClaimedMaxY59(Decoded(1)) IN
        /\ (Scrolled(1) /\ m = 2200 * 59) =>
                /\ parsedPages[1].height > 1872 * HDEN
                /\ parsedPages[1].height = 1947 * HDEN
        /\ (~Scrolled(1) \/ m = 1900 * 59) =>
                parsedPages[1].height = 1872 * HDEN

\* C13 amended: a single-page document whose page has the vertical-scroll
\* flag set and maximum stroke y = 2200 keeps the default height, because
\* 2200 x 0.885 = 1947 does not exceed 1872 x 1.05 = 1965.6 (with maximum
\* stroke y = 2400 the height becomes 2124); a page without the flag, or
\* with maximum stroke y = 1900, keeps the default height.  The output page
\* is 514 pt x height x 514 / 1404 pt.
C13_Scroll2200KeepsDefault ==
    (NumPages = 1 /\ Converted(1)) =>
        LET m == ClaimedMaxY59(Decoded(1))
            expected == IF Scrolled(1) /\ m = 2400 * 59 THEN 2124 ELSE 1872
        IN  ((Scrolled(1) /\ m \in {2200 * 59, 2400 * 59})
             \/ ~Scrolled(1) \/ m = 1900 * 59) =>
                /\ parsedPages[1].height = expected * HDEN
                /\ convPc = "done" =>
                    /\ AnnotationOf(OutputPages[1]).height
                            = expected * 514 * (YDEN \div 1404)
                    /\ AnnotationOf(OutputPages[1]).width = 514 * XDEN

C13_Witness ==
    /\ convPc = "done"
    /\ NumPages = 1
    /\ Converted(1)
    /\ Scrolled(1)
    /\ ClaimedMaxY59(Decoded(1)) = 2200 * 59
    /\ parsedPages[1].height = 1872 * HDEN
    /\ Len(OutputPages) = 1

(***************************************************************************)
(* The vertical flip (Spec).                                               *)
(***************************************************************************)
\* the height of page i after the auto-extension decision, in 1/200 device
\* unit: (max y) x 0.885 for a scrolled page above the threshold, else 1872
ClaimedHeight(i) ==
    IF Unreadable(i) THEN 1872 * 200
    ELSE LET m == ClaimedMaxY59(Decoded(i)) IN
         IF Scrolled(i) /\ ScaledAboveThreshold(m) THEN m * 3 ELSE 1872 * 200

\* effectiveHeightPt - y x 514 / 1620, in 1/YDEN pt (YDEN = 200 * 1404 * 3
\* = 1620 * 520)
ClaimedFlip(i, y) == ClaimedHeight(i) * 514 * 3 - y * 514 * 520

\* the line height that goes with the size of a drawn line of text
LineHeightOf(op) == IF op.size = 18 THEN 26 ELSE 23

\* position p of ops holds the first operator of text block bi
FirstOfBlock(ops, p, bi) ==
    /\ ops[p].kind = "text"
    /\ ops[p].index = bi
    /\ \A q \in 1..(p - 1) : ~(ops[q].kind = "text" /\ ops[q].index = bi)

\* C14: the page keeps the height the auto-extension decision gave it when
\* its coordinates are mapped: the output page is effectiveHeightPt high
\* (page.height after extension x 514 / 1404) and every line end, every
\* path point and every text baseline is flipped against that height,
\* output y = effectiveHeightPt - y x 514 / 1620, never against 1872.
C14_FlipAgainstEffectiveHeight ==
    (convPc = "done" /\ NumPages >= 1) =>
        \A i \in 1..NumPages :
            LET annot == AnnotationOf(OutputPages[i]) IN
            /\ annot.height = ClaimedHeight(i) * 514 * 3
            /\ \A p \in DOMAIN annot.ops :
                LET op == annot.ops[p] IN
                /\ op.kind = "line" =>
                    LET pts == Decoded(i).layers[op.layer].strokes[op.index].points IN
                    \E k \in 1..(Len(pts) - 1) :
                        /\ op.start.y = ClaimedFlip(i, pts[k].y)
                        /\ op.end.y = ClaimedFlip(i, pts[k + 1].y)
                /\ op.kind = "path" =>
                    LET pts == Decoded(i).layers[op.layer].strokes[op.index].points IN
                    \* drawn at y = effectiveHeightPt with the path's own
                    \* y axis pointing down
                    /\ op.y = ClaimedHeight(i) * 514 * 3
                    /\ Len(op.d) = Len(pts)
                    /\ \A j \in DOMAIN pts :
                        IsNearest(op.d[j].y, 100 * pts[j].y * 514, 1620)
                /\ op.kind = "text" =>
                    LET tb == Decoded(i).textBlocks[op.index] IN
                    /\ op.y <= ClaimedFlip(i, tb.posY) - LineHeightOf(op) * YDEN
                    /\ (FirstOfBlock(annot.ops, p, op.index)
                        /\ tb.text[1] \notin {" ", "NL", "LS", "PS"})
                       => op.y = ClaimedFlip(i, tb.posY) - LineHeightOf(op) * YDEN

\* a scrolled page extended to 2400 x 0.885 = 2124: the point at y = 2400
\* lands 16.1 pt above the bottom edge, the heading's first baseline at
\* 2124 x 514 / 1404 - 200 x 514 / 1620 - 26 pt
C14_Witness ==
    /\ convPc = "done"
    /\ NumPages = 1
    /\ Converted(1)
    /\ Scrolled(1)
    /\ ClaimedHeight(1) = 2124 * 200
    /\ LET ops == AnnotationOf(OutputPages[1]).ops IN
       /\ \E p \in DOMAIN ops :
            /\ ops[p].kind = "line"
            /\ ops[p].end.y = 2124 * 200 * 514 * 3 - 2400 * 514 * 520
            /\ ops[p].end.y > 0
       /\ \E p \in DOMAIN ops : ops[p].kind = "path"
       /\ \E p \in DOMAIN ops :
            /\ ops[p].kind = "text"
            /\ ops[p].y = 2124 * 200 * 514 * 3 - 200 * 514 * 520 - 26 * YDEN

(***************************************************************************)
(* The horizontal mapping (SpecStroke).                                    *)
(***************************************************************************)
\* v / den lies within tol/10 of c/10
Within(v, den, c, tol) ==
    /\ (c - tol) * den <= 10 * v
    /\ 10 * v <= (c + tol) * den

\* the horizontal position px (1/1620 pt) is the new mapping of device x,
\* hits the two reference values, and is not the older mapping's value
ClaimedX(px, x) ==
    /\ px = (x + 810) * 514
    /\ x = -213 => Within(px, 1620, 1894, 2)
    /\ x = 290 => Within(px, 1620, 3489, 2)
    \* px / 1620 # (x + 702) * 514 / 1404, except at the centre x = 0 where
    \* the two mappings meet
    /\ x # 0 => px * 1404 # (x + 702) * 514 * 1620
    \* the older mapping gives 179.0 for x = -213
    /\ x = -213 => /\ Within((x + 702) * 514, 1404, 1790, 1)
                   /\ ~Within(px, 1620, 1790, 2)

\* C15: every horizontal coordinate emitted for a stroke is
\* (device x + 810) x 514 / 1620: 189.4 +/- 0.2 pt for x = -213 and
\* 348.9 +/- 0.2 pt for x = 290, unlike the older (x + 702) x 514 / 1404
\* mapping (179.0 pt for x = -213).
C15_HorizontalMapping ==
    strokePc = "returned" =>
        \A p \in DOMAIN strokeOps :
            LET op == strokeOps[p] IN
            /\ op.kind = "line" =>
                \E k \in 1..(Len(stroke.points) - 1) :
                    /\ ClaimedX(op.start.x, stroke.points[k].x)
                    /\ ClaimedX(op.end.x, stroke.points[k + 1].x)
            /\ op.kind = "path" =>
                /\ Len(op.d) = Len(stroke.points)
                /\ \A j \in DOMAIN op.d :
                    \* to two decimals
                    /\ IsNearest(op.d[j].x, 100 * (stroke.points[j].x + 810) * 514, 1620)
                    /\ stroke.points[j].x = -213 => op.d[j].x = 18942
                    /\ stroke.points[j].x = 290 => op.d[j].x = 34901

C15_Witness ==
    /\ strokePc = "returned"
    /\ stroke.penType = "FINELINER_1"
    /\ Len(stroke.points) = 2
    /\ stroke.points[1].x = -213
    /\ stroke.points[2].x = 290
    /\ Len(strokeOps) = 1
    /\ strokeOps[1].start.x = 597 * 514
    /\ strokeOps[1].end.x = 1100 * 514

(***************************************************************************)
(* Paragraph styles of a text block (SpecPage).                            *)
(***************************************************************************)
\* the operators drawn for text block bi, in order
RECURSIVE BlockOps(_, _)
BlockOps(ops, bi) ==
    IF ops = <<>> THEN <<>>
    ELSE (IF Head(ops).kind = "text" /\ Head(ops).index = bi
          THEN <<Head(ops)>> ELSE <<>>)
         \o BlockOps(Tail(ops), bi)

SeparatorUnits == {"NL", "LS", "PS"}

\* the positions (from 1) at which a paragraph of the decoded text starts
ParagraphStarts(text) ==
    {1} \cup {i + 1 : i \in {j \in DOMAIN text : text[j] \in SeparatorUnits}}

\* the paragraph of the decoded text that starts at position a
ParagraphAt(text, a) ==
    LET ends == {j \in a..Len(text) : text[j] \in SeparatorUnits}
        last == IF ends = {} THEN Len(text)
                ELSE (CHOOSE j \in ends : \A k \in ends : j <= k) - 1
    IN  SubSeq(text, a, last)

\* a paragraph shows something: it has a unit that is kept and is no space
Visible(para) ==
    \E j \in DOMAIN para : para[j] \in {"a", "b", "x", "1", ".", "[", "]", "BULLET"}

\* the starts of the visible paragraphs, in ascending order
VisibleStarts(text) ==
    LET vs == {a \in ParagraphStarts(text) : Visible(ParagraphAt(text, a))}
    IN  [k \in 1..Cardinality(vs) |->
            CHOOSE a \in vs : Cardinality({b \in vs : b < a}) = k - 1]

\* the style map's entry at the offset of the paragraph's first character
\* in the decoded text, plain when there is none
ClaimedStyle(tb, a) ==
    IF (a - 1) \in DOMAIN tb.paragraphStyles THEN tb.paragraphStyles[a - 1] ELSE 1

\* the look of a line drawn in a style: heading 2, bold 3
ClaimedLook(style) ==
    CASE style = 2 -> [font |-> "HelveticaBold", size |-> 18]
      [] style = 3 -> [font |-> "HelveticaBold", size |-> 13]
      [] OTHER -> [font |-> "Helvetica", size |-> 10]

\* the marker a style puts in front of its paragraph: bullets 4 and 5,
\* checkboxes 6 and 7, numbering 10
ClaimedMarker(style) ==
    CASE style \in {4, 5} -> <<"BULLET", " ">>
      [] style = 6 -> <<"[", " ", "]", " ">>
      [] style = 7 -> <<"[", "x", "]", " ">>
      [] style = 10 -> <<"1", ".", " ">>
      [] OTHER -> <<>>

StartsWith(line, marker) ==
    /\ Len(line) >= Len(marker)
    /\ SubSeq(line, 1, Len(marker)) = marker

\* the lines drawn for a block fall into one run of lines per visible
\* paragraph, each run in the look of its paragraph's style and opening
\* with the style's marker
DrawnInStyles(tb, lines) ==
    LET starts == VisibleStarts(tb.text)
        n == Len(starts)
    IN  IF n = 0 THEN lines = <<>>
        ELSE \E first \in [1..n -> 1..Len(lines)] :
                /\ first[1] = 1
                /\ \A k \in 1..(n - 1) : first[k] < first[k + 1]
                /\ \A k \in 1..n :
                    LET style == ClaimedStyle(tb, starts[k])
                        until == IF k = n THEN Len(lines) ELSE first[k + 1] - 1
                    IN  /\ StartsWith(lines[first[k]].text, ClaimedMarker(style))
                        /\ \A q \in first[k]..until :
                            /\ lines[q].font = ClaimedLook(style).font
                            /\ lines[q].size = ClaimedLook(style).size

\* C16: every paragraph of a text block is drawn in the style the style map
\* holds at the offset of the paragraph's first character in the block's
\* decoded text (the lengths of the preceding paragraphs plus one per
\* separator), plain when the map has no entry there, also when the text
\* holds characters that sanitization removes.
C16_StyleAtDecodedOffset ==
    pagePc = "done" =>
        \A bi \in DOMAIN pageIn.textBlocks :
            DrawnInStyles(pageIn.textBlocks[bi], BlockOps(pageOps, bi))

(***************************************************************************)
(* Baselines of a text block (SpecPage).                                   *)
(***************************************************************************)
\* the sum of the line heights of the first k lines, in pt
RECURSIVE SumLineHeights(_, _)
SumLineHeights(lines, k) ==
    IF k = 0 THEN 0 ELSE LineHeightOf(lines[k]) + SumLineHeights(lines, k - 1)

\* the number of paragraphs without visible content ahead of position a
EmptyBefore(text, a) ==
    Cardinality({b \in ParagraphStarts(text) :
                    b < a /\ ~Visible(ParagraphAt(text, b))})

\* d (1/YDEN pt) is the sum of n line heights, each 23 pt or 26 pt
IsLineHeights(d, n) == \E h \in 0..n : d = (23 * (n - h) + 26 * h) * YDEN

\* C17: within one text block the baseline starts at the block's origin
\* (page height - posY x 514 / 1620) and only goes down: every drawn line
\* lies its own line height or more below the line before it (the first
\* one below the origin), and what lies between beyond the line heights of
\* the drawn lines is exactly one line height per empty paragraph passed.
C17_BaselineOnlyDecreases ==
    pagePc \in {"save", "done"} =>
        \A bi \in DOMAIN pageIn.textBlocks :
            LET tb == pageIn.textBlocks[bi]
                lines == BlockOps(pageOps, bi)
                n == Len(lines)
                origin == pageIn.height * 514 * 3 - tb.posY * 514 * 520
                starts == VisibleStarts(tb.text)
                \* how far line k lies below the origin, less the line
                \* heights of the lines drawn up to it
                Extra(k) == origin - lines[k].y - SumLineHeights(lines, k) * YDEN
            IN  n > 0 =>
                /\ lines[1].y < origin
                /\ \A k \in 2..n : lines[k].y < lines[k - 1].y
                /\ Extra(1) >= 0
                /\ \A k \in 2..n : Extra(k) >= Extra(k - 1)
                /\ IsLineHeights(Extra(1), EmptyBefore(tb.text, starts[1]))
                /\ IsLineHeights(Extra(n), EmptyBefore(tb.text, starts[Len(starts)]))

\* a heading wrapped over two lines, an empty paragraph, a bulleted line:
\* the baselines lie 26, 52 and 98 pt below the origin; in the other block
\* the empty first paragraph puts the first line 46 pt below the origin
C17_Witness ==
    /\ pagePc = "done"
    /\ pageIn.textBlocks = <<TextBlockD, TextBlockA>>
    /\ LET originA == pageIn.height * 514 * 3 - 200 * 514 * 520
           originD == pageIn.height * 514 * 3 - 900 * 514 * 520
           a == BlockOps(pageOps, 2)
           d == BlockOps(pageOps, 1)
       IN  /\ Len(a) = 3
           /\ a[1].y = originA - 26 * YDEN
           /\ a[2].y = originA - 52 * YDEN
           /\ a[3].y = originA - 98 * YDEN
           /\ Len(d) = 2
           /\ d[1].y = originD - 46 * YDEN
           /\ d[2].y = originD - 69 * YDEN

(***************************************************************************)
(* What rendering and conversion leave of the pages (Spec).                *)
(***************************************************************************)
\* C18: rendering never modifies its input: over every step of
\* renderPageToPdf and renderNotebookToPdf the pages passed in (layers,
\* strokes, points in their order with their widths, text blocks, width,
\* height, id) and the background buffers stay as they are.
C18_RenderingLeavesInputs ==
    [][convPc = "render" =>
            /\ parsedPages' = parsedPages
            /\ backgroundPdfs' = backgroundPdfs]_vars

\* both pages of a notebook are rendered, each over a background; the
\* highlighter stroke of the first still has its points in stroke order,
\* widths 45, 3, 10000
C18_Witness ==
    /\ convPc = "done"
    /\ NumPages = 2
    /\ Len(outputDoc) = 2
    /\ backgroundPdfs[1] # Null
    /\ backgroundPdfs[2] # Null
    /\ parsedPages[1].layers # <<>>
    /\ parsedPages[1].layers[1].strokes[1].penType = "HIGHLIGHTER_1"
    /\ parsedPages[1].layers[1].strokes[1].points = MkPoints(<<45, 3, 10000>>)
    /\ parsedPages[1].textBlocks # <<>>

\* C19 as stated: between decoding a page and rendering it, convertToPdf
\* changes no field of the decoded Page other than its height: identifier,
\* layers, strokes, points, text blocks and width are as the decoder
\* returned them.
C19_OnlyHeightChanges ==
    \A i \in 1..NumPages :
        Converted(i) =>
            /\ Len(parsedPages) >= i
            /\ parsedPages[i] = [Decoded(i) EXCEPT !.height = parsedPages[i].height]

\* C19 amended: between decoding a page and rendering it, convertToPdf
\* changes no field of the decoded Page other than its height and its
\* identifier, which it sets to the input page's id: layers, strokes,
\* points, text blocks, text spans and width are as the decoder returned
\* them.
C19_OnlyHeightAndIdChange ==
    \A i \in 1..NumPages :
        Converted(i) =>
            /\ Len(parsedPages) >= i
            /\ parsedPages[i].pageId = content.pages[i].pageId
            /\ parsedPages[i].layers = Decoded(i).layers
            /\ parsedPages[i].textBlocks = Decoded(i).textBlocks
            /\ parsedPages[i].textSpans = Decoded(i).textSpans
            /\ parsedPages[i].width = Decoded(i).width
            /\ DOMAIN parsedPages[i] = DOMAIN Decoded(i)

\* a scrolled page of strokes and text, extended to 2124: it carries the
\* input page's id in place of the decoder's, and the decoded content
C19_Witness ==
    /\ convPc = "render"
    /\ Converted(1)
    /\ Scrolled(1)
    /\ Decoded(1) = DecodedLong
    /\ parsedPages[1].height = 2124 * HDEN
    /\ parsedPages[1].height # Decoded(1).height
    /\ parsedPages[1].pageId = "p1"
    /\ parsedPages[1].pageId # Decoded(1).pageId
    /\ parsedPages[1].layers = DecodedLong.layers
    /\ parsedPages[1].textBlocks = <<TextBlockA>>

(***************************************************************************)
(* Ink strokes, segment by segment (SpecRender).                           *)
(***************************************************************************)
\* the colour a stroke resolves to: its override's RGB, else the palette
\* entry of its index, black outside 0..13
ClaimedColor(s) ==
    IF s.colorArgb # Null THEN ClaimedRgb(s.colorArgb[1])
    ELSE IF s.color \in 0..13
    THEN [r |-> COLOR_MAP[s.color][1] * 255,
          g |-> COLOR_MAP[s.color][2] * 255,
          b |-> COLOR_MAP[s.color][3] * 255]
    ELSE [r |-> 0, g |-> 0, b |-> 0]

\* raw width w x 514 / 1404 x 0.216, clamped to the pen's range, in 1/WDEN pt
ClaimedWidth(w, penType) ==
    LET lo == ClaimedWidthRange(penType)[1] * (WDEN \div 10)
        hi == ClaimedWidthRange(penType)[2] * (WDEN \div 10)
        scaled == w * 514 * 216
    IN  IF scaled < lo THEN lo ELSE IF scaled > hi THEN hi ELSE scaled

IsInk(s) ==
    /\ s.penType \notin {"HIGHLIGHTER_1", "HIGHLIGHTER_2", "SHADER"}
    /\ s.penType \notin {"ERASER", "ERASER_AREA"}
    /\ Len(s.points) >= 2

\* the page of input page 1 holds one two-point fineliner stroke without
\* override and nothing else
OneFinelinerStroke(pg) ==
    /\ Len(pg.layers) = 1
    /\ Len(pg.layers[1].strokes) = 1
    /\ pg.layers[1].strokes[1].penType \in {"FINELINER_1", "FINELINER_2"}
    /\ pg.layers[1].strokes[1].colorArgb = Null
    /\ Len(pg.layers[1].strokes[1].points) = 2
    /\ pg.textBlocks = <<>>

\* C20: a non-highlighter, non-eraser stroke with n >= 2 points emits
\* exactly n-1 line operations and nothing else, the k-th from point k to
\* point k+1, with round caps, the stroke's resolved colour and the clamped
\* scaled width of point k+1, its ending point; a one-page document whose
\* page holds only a two-point fineliner stroke without override yields one
\* page, 514 pt wide, with exactly one drawing operation, in the palette
\* colour of the stroke's index and of a width within [0.3, 4.0].
C20_InkStrokeSegmentByEndWidth ==
    /\ (strokePc = "returned" /\ IsInk(stroke)) =>
        /\ Len(strokeOps) = Len(stroke.points) - 1
        /\ \A k \in DOMAIN strokeOps :
            LET op == strokeOps[k]
                from == stroke.points[k]
                to == stroke.points[k + 1]
            IN  /\ op.kind = "line"
                /\ op.start.x = (from.x + 810) * 514
                /\ op.start.y = strokeGeo.pageHeightPt - from.y * 514 * 520
                /\ op.end.x = (to.x + 810) * 514
                /\ op.end.y = strokeGeo.pageHeightPt - to.y * 514 * 520
                /\ op.lineCap = "Round"
                /\ op.color = ClaimedColor(stroke)
                /\ op.thickness = ClaimedWidth(to.width, stroke.penType)
    /\ (convPc = "done" /\ NumPages = 1 /\ ~Unreadable(1)
        /\ OneFinelinerStroke(Decoded(1))) =>
        /\ Len(OutputPages) = 1
        /\ LET annot == AnnotationOf(OutputPages[1])
               drawn == DrawingOps(annot.ops)
               s == Decoded(1).layers[1].strokes[1]
           IN  /\ annot.width = 514 * XDEN
               /\ Len(drawn) = 1
               /\ drawn[1].kind = "line"
               /\ drawn[1].color = [r |-> COLOR_MAP[s.color][1] * 255,
                                    g |-> COLOR_MAP[s.color][2] * 255,
                                    b |-> COLOR_MAP[s.color][3] * 255]
               /\ 3 * WDEN <= 10 * drawn[1].thickness
               /\ 10 * drawn[1].thickness <= 40 * WDEN
               /\ drawn[1].thickness = ClaimedWidth(s.points[2].width, s.penType)

\* three points of widths 3, 45, 3 drawn with a ballpoint: two lines, the
\* first 3.0 pt wide (the maximum, from its ending point), the second 0.3 pt
C20_Witness ==
    /\ strokePc = "returned"
    /\ stroke.penType = "BALLPOINT_1"
    /\ RawWidthsOf(stroke) = <<3, 45, 3>>
    /\ Len(strokeOps) = 2
    /\ strokeOps[1].thickness = 3 * WDEN
    /\ 10 * strokeOps[2].thickness = 3 * WDEN
    /\ strokeOps[1].end = strokeOps[2].start

\* the one-page document with the fineliner stroke, over a background page
C20_WitnessDocument ==
    /\ convPc = "done"
    /\ NumPages = 1
    /\ ~Unreadable(1)
    /\ Decoded(1) = DecodedFineliner
    /\ backgroundPdfs[1] # Null
    /\ Len(OutputPages) = 1
    /\ Len(DrawingOps(AnnotationOf(OutputPages[1]).ops)) = 1
    /\ AnnotationOf(OutputPages[1]).ops[1].color = [r |-> 1882 * 255, g |-> 2902 * 255,
                                                   b |-> 8784 * 255]


(***************************************************************************)
(* C21: wrapText is greedy and lossless.                                   *)
(***************************************************************************)
\* the words of every line, split on single spaces, in line order
WordsOfLines(lines) == ConcatAll([i \in 1..Len(lines) |-> Split(lines[i], " ")])

RECURSIVE JoinWords(_)
JoinWords(words) ==
    IF Len(words) = 0 THEN <<>>
    ELSE IF Len(words) = 1 THEN words[1]
    ELSE words[1] \o <<" ">> \o JoinWords(Tail(words))

\* the words joined by single spaces measure at most maxWidth
FitsWidth(words) ==
    widthOfTextAtSize(JoinWords(words), wrapArgs.font, wrapArgs.fontSize) * XDEN
        <= wrapArgs.maxWidth * 1000

\* the number of words on the lines before line i
WordsBefore(lines, i) == Len(WordsOfLines(SubSeq(lines, 1, i - 1)))

\* C21: wrapText returns at least one line; the words of the input, split on
\* single spaces, are the words of the returned lines in the same order, none
\* dropped or duplicated; each line is the longest run of the remaining words
\* that fits maxWidth, and a line wider than maxWidth is a single word
C21_WrapGreedyLossless ==
    wrapPc = "returned" =>
        LET words == Split(wrapArgs.text, " ")
            lines == Get(wrapLines)
        IN  /\ Len(lines) >= 1
            /\ WordsOfLines(lines) = words
            /\ \A i \in 1..Len(lines) :
                   LET from == WordsBefore(lines, i)
                       n == Len(Split(lines[i], " "))
                       run == SubSeq(words, from + 1, from + n)
                   IN  \/ /\ FitsWidth(run)
                          /\ from + n < Len(words) =>
                                 ~FitsWidth(SubSeq(words, from + 1, from + n + 1))
                       \/ n = 1 /\ ~FitsWidth(run)


(***************************************************************************)
(* C22: re-render.ts extends a page exactly as DocumentConverter does.     *)
(***************************************************************************)
\* C22: for every page that decodes and every vertical-scroll value, set or
\* absent, re-render.ts and convertToPdf leave the page with the same height:
\* both extend it, to the same height, or neither does
C22_ReRenderExtendsLikeConverter ==
    (/\ ~IsNull(rrConverted)
     /\ ~IsNull(rrRendered)
     /\ ~Get(rrRendered).threw)
        => Get(rrRendered).page.height = Get(rrConverted).height


(***************************************************************************)
(* C23: the points of a scrolled page stay on its output page (Spec).      *)
(***************************************************************************)
\* the points of the strokes of a page that lie on whole device units
WholePoints(pg) ==
    UNION {UNION {{st.points[k] : k \in {j \in DOMAIN st.points : st.points[j].ySub = 0}} :
                     st \in {ly.strokes[si] : si \in DOMAIN ly.strokes}} :
              ly \in {pg.layers[li] : li \in DOMAIN pg.layers}}

\* C23: for a page with the vertical-scroll flag set that convertToPdf has
\* processed, every stroke point with y >= 0 is mapped to an output y between
\* 0 and the page height in points, whether the page was extended or not
C23_ScrolledPointsStayOnPage ==
    \A i \in 1..NumPages :
        (Converted(i) /\ Scrolled(i)) =>
            LET geo == computePageGeometry(parsedPages[i]) IN
            \A pt \in WholePoints(parsedPages[i]) :
                pt.y >= 0 =>
                    /\ toPdf(pt.x, pt.y, geo).py >= 0
                    /\ toPdf(pt.x, pt.y, geo).py <= geo.pageHeightPt


(***************************************************************************)
(* The plugin: runSync and the auto-sync interval (SpecPlugin).            *)
(***************************************************************************)
\* call c of runSync has set isSyncing and has not reached finally yet
InProgress(c) ==
    c <= Len(calls) /\ calls[c].pc \in {"create", "sync", "save", "saveInCatch"}

\* the step is a call of runSync
IsRunSyncCall == Len(calls') = Len(calls) + 1

\* the call of runSync made in this step has returned at once, and no
\* SyncManager was created and sync was not called
ReturnsAtOnce ==
    /\ calls'[Len(calls')].pc \notin {"create", "sync", "save", "saveInCatch"}
    /\ managersCreated' = managersCreated
    /\ syncCalls' = syncCalls

\* C24: at most one sync is in progress at any time, under any interleaving
\* of runSync calls from the ribbon icon, the commands and the timer; a
\* runSync that finds isSyncing true returns without creating a SyncManager
\* or calling sync, and a runSync that finds the plugin unauthenticated
\* returns without setting isSyncing
C24_AtMostOneSyncInProgress ==
    /\ [](Cardinality({c \in 1..Len(calls) : InProgress(c)}) <= 1)
    /\ [](syncCalls <= managersCreated)
    /\ [][IsRunSyncCall =>
            /\ isSyncing => (ReturnsAtOnce /\ calls'[Len(calls')].pc = "busy")
            /\ ~settings.isAuthenticated => (ReturnsAtOnce /\ isSyncing' = isSyncing)
            /\ \A c \in 1..Len(calls) : calls'[c] = calls[c]]_vars
    /\ [][\A c \in 1..Len(calls) :
                calls[c].pc \in {"busy", "unauth"} => calls'[c] = calls[c]]_vars

\* a call is refused as unauthenticated, a later one is in progress and a
\* third one finds it running
C24_Witness ==
    /\ Len(calls) = 3
    /\ calls[1].pc = "unauth"
    /\ calls[2].pc = "sync"
    /\ calls[3].pc = "busy"
    /\ timers # {}
    /\ managersCreated = 1
    /\ syncCalls = 1

\* C25: every runSync that sets isSyncing to true sets it back to false once
\* its awaited operations settle: when sync returns results, when it throws
\* (a 'Not authenticated' error also clears settings.isAuthenticated) and
\* when saving the settings fails; isSyncing is false whenever no call is in
\* progress, so a failed sync does not block later ones
C25_IsSyncingAlwaysReset ==
    /\ \A c \in 1..MaxCalls : InProgress(c) ~> (c <= Len(calls) /\ ~InProgress(c))
    /\ [](isSyncing <=> \E c \in 1..Len(calls) : InProgress(c))
    /\ [][\A c \in 1..Len(calls) :
              /\ (InProgress(c) /\ ~InProgress(c)') => ~isSyncing'
              /\ (calls[c].pc = "sync" /\ calls'[c].pc = "saveInCatch")
                    => ~settings'.isAuthenticated]_vars

\* the first sync failed as unauthenticated and could not save the settings,
\* the second failed otherwise, the third is running
C25_Witness ==
    /\ Len(calls) = 3
    /\ calls[1].pc = "rejected"
    /\ calls[2].pc = "returned"
    /\ calls[3].pc = "sync"
    /\ managersCreated = 3
    /\ isSyncing

\* C30: after any sequence of onload, restartAutoSync and onunload at most
\* one interval is set, and it is the one the plugin holds; none is set when
\* the configured label is 'Manual only' or no key of SYNC_INTERVALS, and
\* none after onunload
C30_AtMostOneAutoSyncTimer ==
    /\ Cardinality(timers) <= 1
    /\ timers = (IF IsNull(syncIntervalId) THEN {} ELSE {Get(syncIntervalId)})
    /\ settings.syncIntervalLabel \in {"Manual only", "Hourly"} => timers = {}
    /\ pluginPc = "unloaded" => timers = {}

\* the third interval is the only one set, after a restart and a reload
C30_Witness ==
    /\ timerCount = 3
    /\ timers = {3}
    /\ pluginPc = "loaded"
    /\ settings.syncIntervalLabel = "Every 60 minutes"

\* the label was set back to manual after an interval had been set
C30_WitnessManual ==
    /\ timerCount >= 1
    /\ timers = {}
    /\ pluginPc = "loaded"
    /\ settings.syncIntervalLabel = "Manual only"


(***************************************************************************)
(* SyncManager (SpecSync).                                                 *)
(***************************************************************************)
\* how often path p occurs in a list of paths
CountPath(paths, p) == Cardinality({k \in DOMAIN paths : paths[k] = p})

\* how many entries of the three result lists belong to the document at p
ResultEntries(p) ==
    CountPath(results.synced, p)
    + CountPath(results.skipped, p)
    + Cardinality({k \in DOMAIN results.errors : results.errors[k].path = p})

\* a listed item that is a document, not trashed, and whose folder path
\* starts with the folder filter when one is set
Eligible(doc) ==
    /\ doc.type = "DocumentType"
    /\ ~doc.isTrashed
    /\ \/ opts.folderFilter = Null
       \/ /\ doc.folderPath # Null
          /\ startsWith(Get(doc.folderPath), Get(opts.folderFilter))

\* C26: when sync returns, every listed, non-trashed document that matches
\* the folder filter has exactly one entry in results.synced, skipped and
\* errors together; a folder, a trashed document and a filtered-out document
\* have none; the documents after a failed one are still processed
C26_EveryDocumentInExactlyOneResult ==
    managerPc = "returned" =>
        /\ \A k \in DOMAIN Listing :
              ResultEntries(DocPath(Listing[k])) = IF Eligible(Listing[k]) THEN 1 ELSE 0
        /\ Len(results.synced) + Len(results.skipped) + Len(results.errors)
              = Cardinality({k \in DOMAIN Listing : Eligible(Listing[k])})

\* the first document failed, the second was synced after it
C26_Witness ==
    /\ managerPc = "returned"
    /\ opts.folderFilter = Null
    /\ results.errors = << [path |-> <<"W", "/", "a">>, message |-> "convert"] >>
    /\ results.synced = << <<"b", "?">> >>
    /\ results.skipped = <<>>

\* with a folder filter: one document is kept, which was skipped
C26_WitnessFilter ==
    /\ managerPc = "returned"
    /\ opts.folderFilter = Some(<<"W">>)
    /\ results.skipped = << <<"W", "/", "a">> >>
    /\ results.synced = <<>>
    /\ results.errors = <<>>

\* the step is an iteration of the for loop of sync
IsIteration == managerPc = "loop" /\ syncI <= Len(filtered) /\ syncI' = syncI + 1

\* the iteration ended in catch because the named await rejected
FailedAt(messages) ==
    /\ Len(results'.errors) = Len(results.errors) + 1
    /\ results'.errors[Len(results'.errors)].message \in messages

\* the record of document d in the state file
FileRecord(file, d) == LoadState(file).syncedDocs[d]

\* C27 (as stated): a record is written only after download, conversion and
\* PDF write succeeded; when download, conversion, mkdir or the write fails
\* the previous record is unchanged in memory and in the state file, and the
\* next non-forced sync retries the document
C27_FailureLeavesRecordAndRetries ==
    [][IsIteration =>
        LET doc == filtered[syncI] IN
        /\ \A d \in DocIds \ {doc.id} :
              /\ state'.syncedDocs[d] = state.syncedDocs[d]
              /\ FileRecord(stateFile', d) \in {FileRecord(stateFile, d), state.syncedDocs[d]}
        /\ state'.syncedDocs[doc.id] # state.syncedDocs[doc.id] =>
              /\ Get(state'.syncedDocs[doc.id]).version = doc.version
              /\ doc.id \in downloads'
              /\ fileOpsCalls'.writeBinaryFile = fileOpsCalls.writeBinaryFile + 1
              /\ ~FailedAt({"download", "convert", "mkdir", "write"})
        /\ FailedAt({"download", "convert", "mkdir", "write"}) =>
              /\ state'.syncedDocs[doc.id] = state.syncedDocs[doc.id]
              /\ FileRecord(stateFile', doc.id) = FileRecord(stateFile, doc.id)
              /\ needsSync(state', doc)
              /\ needsSync(LoadState(stateFile'), doc)]_vars

\* C27 (amended): the same, but the next non-forced sync retries the
\* document when it was due before the failed attempt; a forced sync that
\* fails on a document whose record is up to date leaves it up to date
C27_FailureLeavesRecord ==
    [][IsIteration =>
        LET doc == filtered[syncI] IN
        /\ \A d \in DocIds \ {doc.id} :
              /\ state'.syncedDocs[d] = state.syncedDocs[d]
              /\ FileRecord(stateFile', d) \in {FileRecord(stateFile, d), state.syncedDocs[d]}
        /\ state'.syncedDocs[doc.id] # state.syncedDocs[doc.id] =>
              /\ Get(state'.syncedDocs[doc.id]).version = doc.version
              /\ doc.id \in downloads'
              /\ fileOpsCalls'.writeBinaryFile = fileOpsCalls.writeBinaryFile + 1
              /\ ~FailedAt({"download", "convert", "mkdir", "write"})
        /\ FailedAt({"download", "convert", "mkdir", "write"}) =>
              /\ state'.syncedDocs[doc.id] = state.syncedDocs[doc.id]
              /\ FileRecord(stateFile', doc.id) = FileRecord(stateFile, doc.id)
              /\ needsSync(state', doc) = needsSync(state, doc)
              /\ needsSync(LoadState(stateFile'), doc)
                    = needsSync(LoadState(stateFile), doc)
              /\ ~opts.force => needsSync(state', doc)]_vars

\* the second sync is forced and fails to write the PDF of a document whose
\* record, in memory and in the file, is the one of the first sync
C27_Witness ==
    /\ syncCount = 2
    /\ opts.force
    /\ ~opts.dryRun
    /\ results.errors = << [path |-> <<"W", "/", "a">>, message |-> "write"] >>
    /\ state.syncedDocs["d1"] # Null
    /\ Get(state.syncedDocs["d1"]).syncedAt = 1
    /\ FileRecord(stateFile, "d1") = state.syncedDocs["d1"]
    /\ ~needsSync(state, filtered[1])

\* a non-forced sync fails to download a document that has no record
C27_WitnessDue ==
    /\ managerPc = "loop"
    /\ ~opts.force
    /\ results.errors = << [path |-> <<"W", "/", "a">>, message |-> "download"] >>
    /\ state.syncedDocs["d1"] = Null
    /\ FileRecord(stateFile, "d1") = Null

\* C28: a sync with dryRun set downloads no document, calls no writing
\* method of FileOps and leaves the SyncState, syncedDocs and lastSync, and
\* the state file as they were
C28_DryRunHasNoSideEffects ==
    [][(managerPc = "loop" /\ opts.dryRun) =>
        /\ downloads' = downloads
        /\ fileOpsCalls' = fileOpsCalls
        /\ state' = state
        /\ stateFile' = stateFile]_vars

\* C29: once syncDocument has succeeded for document d at version v, every
\* later non-forced sync that lists d at version v, from the same manager or
\* from one created from the state file, puts d in skipped and does not
\* download it; d is downloaded again only when its listed version is
\* greater than the recorded one or force is set
C29_NonForcedSyncIsIdempotent ==
    [][IsIteration =>
        LET doc == filtered[syncI] IN
        /\ (~opts.force /\ syncedOk[doc.id] = doc.version) =>
              /\ results'.skipped = Append(results.skipped, DocPath(doc))
              /\ results'.synced = results.synced
              /\ results'.errors = results.errors
              /\ downloads' = downloads
        /\ (syncedOk[doc.id] > 0 /\ doc.id \in downloads') =>
              \/ opts.force
              \/ /\ state.syncedDocs[doc.id] # Null
                 /\ doc.version > Get(state.syncedDocs[doc.id]).version]_vars

\* the second sync, not forced, skips the document that the first synced and
\* downloads the one that was edited since
C29_Witness ==
    /\ syncCount = 2
    /\ ~opts.force
    /\ ~opts.dryRun
    /\ syncedOk = [d \in DocIds |-> IF d = "d3" THEN 0 ELSE IF d = "d2" THEN 2 ELSE 1]
    /\ results.skipped = << <<"W", "/", "a">> >>
    /\ results.synced = << <<"b", "?">> >>
    /\ downloads = {"d2"}
    /\ Get(state.syncedDocs["d1"]).syncedAt = 1
    /\ Get(state.syncedDocs["d2"]).syncedAt = 2

====
